---- MODULE Spec2Model ----
(***************************************************************************)
(* Usage metering, quota enforcement and billing reconciliation of the     *)
(* gptx-api worker: the KV_USERS namespace (user records and the three     *)
(* dirty lists), the request-path ledger functions and the scheduled       *)
(* handler with its four cadences.  Every action is one segment of a       *)
(* handler between two awaits, so that handlers interleave exactly where   *)
(* the runtime lets them.                                                  *)
(***************************************************************************)
EXTENDS Integers, Sequences, FiniteSets, TLC

(***************************************************************************)
(* Bounds of the model.                                                    *)
(***************************************************************************)
MaxTracked == 2      \* longest '__tracked_runs' list an enqueue may extend
MaxJobs == 2         \* scheduled events started in one behaviour
MaxRequests == 2     \* request handlers started in one behaviour
MaxHandlers == 2     \* handlers started in one behaviour of interleaved handlers

(***************************************************************************)
(* Values.  JavaScript null / undefined / a missing KV key are the empty   *)
(* sequence None, a present value x is Some(x).  A null limit is NullLimit.*)
(***************************************************************************)
None == <<>>
Some(x) == <<x>>
IsSome(o) == o /= <<>>
The(o) == o[1]

NullLimit == -1
NaN == -2

Users == {"u1", "u2"}
Models == <<"gpt-4", "gpt-4-1106-preview">>
ModelSet == {Models[n] : n \in 1..Len(Models)}
UnmeteredModel == "gpt-4-0613"
ImageModels == <<"dall-e-3">>
ImageModelSet == {ImageModels[n] : n \in 1..Len(ImageModels)}
TextKeys == Models \o <<"file">>
TextKeySet == {TextKeys[n] : n \in 1..Len(TextKeys)}

BillingUnit == 1000
ImagePartCost == 1000

Range(s) == {s[n] : n \in 1..Len(s)}

RECURSIVE SumSeq(_)
SumSeq(s) == IF s = <<>> THEN 0 ELSE Head(s) + SumSeq(Tail(s))

(***************************************************************************)
(* Strings are sequences of characters; an identifier is one character.    *)
(***************************************************************************)
DigitChars == <<"0", "1", "2", "3", "4", "5", "6", "7", "8", "9">>
DigitOf(c) == (CHOOSE n \in 1..10 : DigitChars[n] = c) - 1
IsDigit(c) == \E n \in 1..10 : DigitChars[n] = c

\* `${usage}` : the decimal rendering of a non-negative integer
RECURSIVE NumToString(_)
NumToString(n) ==
  IF n < 10 THEN <<DigitChars[n + 1]>>
  ELSE NumToString(n \div 10) \o <<DigitChars[(n % 10) + 1]>>

\* parseInt : the value of the leading digits, NaN when there are none
RECURSIVE ParseDigits(_, _)
ParseDigits(s, acc) ==
  IF s = <<>> \/ ~IsDigit(Head(s)) THEN acc
  ELSE ParseDigits(Tail(s), acc * 10 + DigitOf(Head(s)))
parseInt_Zero(s) == 0
parseInt(s) == IF s = <<>> \/ ~IsDigit(Head(s)) THEN NaN ELSE ParseDigits(s, 0)

\* String.prototype.split(sep) : the pieces between the separators
RECURSIVE SplitFrom(_, _, _)
SplitFrom(s, sep, cur) ==
  IF s = <<>> THEN <<cur>>
  ELSE IF Head(s) = sep THEN <<cur>> \o SplitFrom(Tail(s), sep, <<>>)
  ELSE SplitFrom(Tail(s), sep, Append(cur, Head(s)))
split(s, sep) == SplitFrom(s, sep, <<>>)

\* `${user_id}|${thread_id}|${run_id}|${usage}`
TrackedRunKey(user_id, thread_id, run_id, usage) ==
  <<user_id, "|", thread_id, "|", run_id, "|">> \o NumToString(usage)

\* the destructured pieces of a tracked run; a missing piece is undefined
Piece(parts, n) == IF n <= Len(parts) THEN parts[n] ELSE <<>>
IdOf(piece) == IF Len(piece) = 1 THEN piece[1] ELSE "?"

(***************************************************************************)
(* constants.ts and getDefaultUserData                                     *)
(***************************************************************************)
InitialModelLimits ==
  [m \in ModelSet |->
     IF m = "gpt-4" THEN [minute |-> 2500, day |-> NullLimit]
     ELSE [minute |-> 4000, day |-> 25000]]

defaultImageModelLimits == [m \in ImageModelSet |-> [minute |-> 0, day |-> 0]]

getDefaultUserData(limits) ==
  [active |-> FALSE,
   stripe_customer_id |-> "",
   limits |-> limits,
   image_limits |-> defaultImageModelLimits,
   used |-> [m \in TextKeySet |-> [minute |-> 0, day |-> 0]],
   image_used |-> [m \in ImageModelSet |-> [minute |-> 0, day |-> 0]],
   usage_text_since_last_record |-> [m \in TextKeySet |-> 0],
   usage_image_since_last_record |-> [m \in ImageModelSet |-> 0]]

\* mergeDeep of one table of {minute, day} objects (or of numbers): every
\* key of the source is written over the target, the other keys stay
MergeWindows(t, s) == [w \in DOMAIN t \cup DOMAIN s |-> IF w \in DOMAIN s THEN s[w] ELSE t[w]]
MergeTable(t, s) ==
  [m \in DOMAIN t \cup DOMAIN s |->
     IF m \in DOMAIN s
     THEN (IF m \in DOMAIN t THEN MergeWindows(t[m], s[m]) ELSE s[m])
     ELSE t[m]]
MergeFlat(t, s) == [m \in DOMAIN t \cup DOMAIN s |-> IF m \in DOMAIN s THEN s[m] ELSE t[m]]

ObjectFields == {"limits", "image_limits", "used", "image_used"}
FlatFields == {"usage_text_since_last_record", "usage_image_since_last_record"}

mergeDeep(target, source) ==
  [f \in DOMAIN target \cup DOMAIN source |->
     IF f \notin DOMAIN source THEN target[f]
     ELSE IF f \notin DOMAIN target THEN source[f]
     ELSE IF f \in ObjectFields THEN MergeTable(target[f], source[f])
     ELSE IF f \in FlatFields THEN MergeFlat(target[f], source[f])
     ELSE source[f]]

\* getUserDataById, given the value read from KV_USERS and the process-wide
\* defaultModelLimits object the default record shares
UserDataOf(stored, limits) ==
  IF ~IsSome(stored) THEN getDefaultUserData(limits)
  ELSE mergeDeep(getDefaultUserData(limits), The(stored))

\* JSON.stringify(userData): the limits of a loaded record are the shared
\* defaultModelLimits object itself, so they are written as that object is now
Stringified(userData, limits) == [userData EXCEPT !.limits = limits]

\* calculateLength of a message's content: the parts are {type: 'text',
\* text: {value}} objects and {type: 'image_file', image_file} objects
PartLength(part) ==
  IF "text" \in DOMAIN part THEN Len(part.text.value)
  ELSE IF "image_file" \in DOMAIN part THEN ImagePartCost
  ELSE 0
TypeError == -3
\* Array.prototype.reduce without an initial value throws on an empty array
calculateLength(content) ==
  IF content = <<>> THEN TypeError
  ELSE SumSeq([n \in 1..Len(content) |-> PartLength(content[n])])

TextPart(s) == [type |-> "text", text |-> [value |-> s]]
ImagePart == [type |-> "image_file", image_file |-> [file_id |-> "f"]]

(***************************************************************************)
(* What the collaborators can answer.                                      *)
(***************************************************************************)
Statuses == {"completed", "in_progress", "failed"}
RunModels == {"gpt-4", UnmeteredModel}
\* the messages the 'message_creation' steps of a run point to
StepMessages ==
  { <<>>,
    << <<TextPart(<<"o", "k">>), ImagePart>>, <<TextPart(<<"!">>)>> >> }
\* the runs the request handlers can hand to addTrackedRuns
TrackedInputs ==
  { <<"u1", "t1", "r1", 0>>, <<"u1", "t1", "r2", 7>>, <<"u2", "t2", "r3", 0>> }

ListKeys == {"__usage", "__usage_daily", "__tracked_runs"}
Procs == {1, 2}

CronMinute == "* * * * *"
CronDaily == "0 0 * * *"
CronRuns == "*/5 * * * *"
CronBilling == "*/30 * * * *"

VARIABLES
  KV_USERS,            \* the KV namespace: user id or list key -> None | Some(value)
  defaultModelLimits,  \* the module-level limits object every default record shares
  bq,                  \* the rows appended to the usage sink
  usageRecords,        \* the usage records the billing collaborator accepted
  added,               \* user, counter key -> what incrementUsage has stored in all
  subscriptions,       \* customer id -> the lookup keys of its subscription items
  proc,                \* the handlers in flight, each at one await
  started              \* how many scheduled events and requests were started

vars == <<KV_USERS, defaultModelLimits, bq, usageRecords, added, subscriptions, proc, started>>

stringify(userData) == Stringified(userData, defaultModelLimits)

NoAdd == [k \in ListKeys |-> [pc |-> "none", value |-> <<>>, list |-> <<>>]]

Idle ==
  [kind |-> "idle", pc |-> "idle", list |-> None, items |-> <<>>, i |-> 0,
   user_id |-> "", model |-> "", userData |-> None, retrievedRun |-> None,
   count |-> 0, trackedRuns |-> None, notDoneRuns |-> <<>>, subscription |-> <<>>,
   k |-> 0, ret |-> "", inc |-> None, add |-> NoAdd, old |-> None, log |-> <<>>, aborted |-> FALSE,
   incrementUsageBy |-> 0, calls |-> <<>>, allowed |-> None, remainingUsage |-> None,
   measured |-> None, dailyList |-> None]

Put(p, rec) == [proc EXCEPT ![p] = rec]
\* what a handler found when it started
Snapshot == [KV_USERS |-> KV_USERS, bq |-> bq, usageRecords |-> usageRecords]
Busy(p) == proc[p].kind /= "idle"
\* a handler takes the lowest free slot; alone, it starts only when none runs
CanStart(p, alone) ==
  /\ ~Busy(p)
  /\ \A q \in Procs : q < p => Busy(q)
  /\ alone => \A q \in Procs : ~Busy(q)

(***************************************************************************)
(* addString: read the list, append the value when it is not in it, write  *)
(* the list back.  The read and the write are two awaits.                  *)
(***************************************************************************)
AddsDone(add) == \A k \in ListKeys : add[k].pc \in {"none", "done"}
\* the handler goes on at rec.ret once every addString it awaits has returned
AfterAdd(rec) == IF AddsDone(rec.add) THEN [rec EXCEPT !.pc = rec.ret, !.add = NoAdd] ELSE rec

AddStringGet_AlwaysAppend(p, k) ==
  /\ proc[p].pc = "add"
  /\ proc[p].add[k].pc = "get"
  /\ LET stored == KV_USERS[k]
         list == IF IsSome(stored) THEN The(stored) ELSE <<>>
     IN  proc' = Put(p, [proc[p] EXCEPT !.add[k].pc = "put",
                                        !.add[k].list = Append(list, proc[p].add[k].value)])
  /\ UNCHANGED <<KV_USERS, defaultModelLimits, bq, usageRecords, added, subscriptions, started>>

AddStringGet(p, k) ==
  /\ proc[p].pc = "add"
  /\ proc[p].add[k].pc = "get"
  /\ LET stored == KV_USERS[k]
         list == IF IsSome(stored) THEN The(stored) ELSE <<>>
         value == proc[p].add[k].value
     IN  IF value \in Range(list)
         THEN proc' = Put(p, AfterAdd([proc[p] EXCEPT !.add[k].pc = "done"]))
         ELSE proc' = Put(p, [proc[p] EXCEPT !.add[k].pc = "put",
                                             !.add[k].list = Append(list, value)])
  /\ UNCHANGED <<KV_USERS, defaultModelLimits, bq, usageRecords, added, subscriptions, started>>

AddStringPut(p, k) ==
  /\ proc[p].pc = "add"
  /\ proc[p].add[k].pc = "put"
  /\ KV_USERS' = [KV_USERS EXCEPT ![k] = Some(proc[p].add[k].list)]
  /\ proc' = Put(p, AfterAdd([proc[p] EXCEPT !.add[k].pc = "done"]))
  /\ UNCHANGED <<defaultModelLimits, bq, usageRecords, added, subscriptions, started>>

\* addTrackedRuns, as the run-creating handlers call it
addTrackedRuns(p, alone) ==
  /\ CanStart(p, alone)
  /\ started.requests < MaxRequests
  /\ \E in \in TrackedInputs :
       /\ IsSome(KV_USERS["__tracked_runs"]) => Len(The(KV_USERS["__tracked_runs"])) < MaxTracked
       /\ proc' = Put(p, [Idle EXCEPT
            !.kind = "addTrackedRuns", !.pc = "add", !.ret = "done", !.user_id = in[1],
            !.old = Some(Snapshot),
            !.items = <<TrackedRunKey(in[1], in[2], in[3], in[4])>>,
            !.add["__tracked_runs"] =
               [pc |-> "get", value |-> TrackedRunKey(in[1], in[2], in[3], in[4]), list |-> <<>>]])
  /\ started' = [started EXCEPT !.requests = @ + 1]
  /\ UNCHANGED <<KV_USERS, defaultModelLimits, bq, usageRecords, added, subscriptions>>

(***************************************************************************)
(* incrementUsage.  The counters of the caller's record are raised at the  *)
(* call; the write of the record and the two addString are awaited.        *)
(***************************************************************************)
Truthy_Any(n) == TRUE
Truthy(n) == n /= 0 /\ n /= NaN
Plus(a, b) == IF a = NaN \/ b = NaN THEN NaN ELSE a + b

Incremented_SinceOnly(userData, model, count) ==
  [userData EXCEPT !.usage_text_since_last_record[model] = @ + count]

Incremented_MinuteOnly(userData, model, count) ==
  [userData EXCEPT
     !.used[model] = [minute |-> @.minute + count, day |-> @.day],
     !.usage_text_since_last_record[model] = @ + count]

Incremented_Assign(userData, model, count) ==
  [userData EXCEPT
     !.used[model] = [minute |-> count, day |-> count],
     !.usage_text_since_last_record[model] = count]

Incremented(userData, model, count) ==
  [userData EXCEPT
     !.used[model] = [minute |-> @.minute + count, day |-> @.day + count],
     !.usage_text_since_last_record[model] = @ + count]

\* the handler record after calling incrementUsage(model, userData, count)
\* from a point that goes on at ret
incrementUsage(rec, model, count, ret) ==
  IF ~Truthy(count) \/ model \notin DOMAIN The(rec.userData).used
  THEN [rec EXCEPT !.pc = ret,
                   !.calls = Append(@, [model |-> model, count |-> count,
                                        before |-> The(rec.userData)])]
  ELSE [rec EXCEPT !.userData = Some(Incremented(The(rec.userData), model, count)),
                   !.inc = Some([model |-> model, count |-> count]),
                   !.calls = Append(@, [model |-> model, count |-> count,
                                        before |-> The(rec.userData)]),
                   !.pc = "inc_put", !.ret = ret]

IncrementPut_NoDirty(p) ==
  /\ proc[p].pc = "inc_put"
  /\ KV_USERS' = [KV_USERS EXCEPT ![proc[p].user_id] = Some(stringify(The(proc[p].userData)))]
  /\ added' = [added EXCEPT ![proc[p].user_id][The(proc[p].inc).model] = @ + The(proc[p].inc).count]
  /\ proc' = Put(p, [proc[p] EXCEPT !.pc = proc[p].ret, !.inc = None])
  /\ UNCHANGED <<defaultModelLimits, bq, usageRecords, subscriptions, started>>

\* await env.KV_USERS.put(userId, JSON.stringify(userData)), then addUserIdToUsage
IncrementPut(p) ==
  /\ proc[p].pc = "inc_put"
  /\ KV_USERS' = [KV_USERS EXCEPT ![proc[p].user_id] = Some(stringify(The(proc[p].userData)))]
  /\ added' = [added EXCEPT ![proc[p].user_id][The(proc[p].inc).model] = @ + The(proc[p].inc).count]
  /\ proc' = Put(p, [proc[p] EXCEPT
       !.pc = "add", !.inc = None,
       !.add["__usage"] = [pc |-> "get", value |-> proc[p].user_id, list |-> <<>>],
       !.add["__usage_daily"] = [pc |-> "get", value |-> proc[p].user_id, list |-> <<>>]])
  /\ UNCHANGED <<defaultModelLimits, bq, usageRecords, subscriptions, started>>

\* a handler that returned leaves its slot
Return(p) ==
  /\ proc[p].pc = "done"
  /\ proc' = Put(p, Idle)
  /\ UNCHANGED <<KV_USERS, defaultModelLimits, bq, usageRecords, added, subscriptions, started>>

(***************************************************************************)
(* scheduled(event): the first await reads '__usage' whatever the cron is. *)
(***************************************************************************)
scheduled(p, cron, alone) ==
  /\ CanStart(p, alone)
  /\ started.jobs < MaxJobs
  /\ proc' = Put(p, [Idle EXCEPT !.kind = cron, !.pc = "get_usage", !.old = Some(Snapshot)])
  /\ started' = [started EXCEPT !.jobs = @ + 1]
  /\ UNCHANGED <<KV_USERS, defaultModelLimits, bq, usageRecords, added, subscriptions>>

\* the loop over the tracked runs: the next entry, or the write of notDoneRuns
NextRun(rec) ==
  [rec EXCEPT !.i = @ + 1, !.userData = None, !.retrievedRun = None, !.count = 0,
              !.user_id = "", !.model = "",
              !.pc = IF rec.i + 1 <= Len(rec.items) THEN "runs_load" ELSE "runs_put"]

Logged(rec, outcome, model, count) ==
  [rec EXCEPT !.log = Append(@, [run |-> rec.items[rec.i], outcome |-> outcome,
                                 model |-> model, count |-> count])]

\* the loop of the billing flush over list: the next user, or the delete
NextBillUser(rec) ==
  [rec EXCEPT !.i = @ + 1, !.userData = None, !.user_id = "", !.subscription = <<>>, !.k = 0,
              !.pc = IF rec.i + 1 <= Len(rec.items) THEN "bill_load" ELSE "bill_delete"]

NextResetUser_SkipsRest(rec) ==
  [rec EXCEPT !.i = @ + 1, !.userData = None, !.user_id = "",
              !.pc = IF rec.i = 0 /\ Len(rec.items) > 0 THEN "reset_load"
                     ELSE IF rec.kind = CronDaily THEN "daily_delete" ELSE "done"]

\* the loops of the two resets: the next user, or what follows the loop
NextResetUser(rec) ==
  [rec EXCEPT !.i = @ + 1, !.userData = None, !.user_id = "",
              !.pc = IF rec.i + 1 <= Len(rec.items) THEN "reset_load"
                     ELSE IF rec.kind = CronDaily THEN "daily_delete" ELSE "done"]

GetUsage(p) ==
  /\ proc[p].pc = "get_usage"
  /\ LET list == KV_USERS["__usage"]
         rec == [proc[p] EXCEPT !.list = list]
     IN  proc' = Put(p,
           CASE rec.kind = CronRuns -> [rec EXCEPT !.pc = "runs_get"]
             [] rec.kind = CronBilling ->
                  NextBillUser([rec EXCEPT !.items = IF IsSome(list) THEN The(list) ELSE <<>>, !.i = 0])
             [] rec.kind = CronMinute /\ IsSome(list) ->
                  NextResetUser([rec EXCEPT !.items = The(list), !.i = 0])
             [] rec.kind = CronDaily -> [rec EXCEPT !.pc = "daily_get"]
             [] OTHER -> [rec EXCEPT !.pc = "done"])
  /\ UNCHANGED <<KV_USERS, defaultModelLimits, bq, usageRecords, added, subscriptions, started>>

\* const trackedRuns = await env.KV_USERS.get('__tracked_runs')
RunsGet(p) ==
  /\ proc[p].pc = "runs_get"
  /\ proc' = Put(p, [proc[p] EXCEPT
       !.trackedRuns = KV_USERS["__tracked_runs"], !.pc = "runs_delete"])
  /\ UNCHANGED <<KV_USERS, defaultModelLimits, bq, usageRecords, added, subscriptions, started>>

\* await env.KV_USERS.delete('__tracked_runs'); if (trackedRuns) { ... }
RunsDelete(p) ==
  /\ proc[p].pc = "runs_delete"
  /\ KV_USERS' = [KV_USERS EXCEPT !["__tracked_runs"] = None]
  /\ proc' = Put(p, IF IsSome(proc[p].trackedRuns)
                    THEN NextRun([proc[p] EXCEPT !.items = The(proc[p].trackedRuns), !.i = 0])
                    ELSE [proc[p] EXCEPT !.pc = "done"])
  /\ UNCHANGED <<defaultModelLimits, bq, usageRecords, added, subscriptions, started>>

\* const [user_id, thread_id, run_id, usageString] = trackedRun.split('|')
\* const userData = await getUserDataById(env, user_id)
RunsLoad(p) ==
  /\ proc[p].pc = "runs_load"
  /\ LET parts == split(proc[p].items[proc[p].i], "|")
         user_id == IdOf(Piece(parts, 1))
         userData == UserDataOf(KV_USERS[user_id], defaultModelLimits)
     IN  /\ proc' = Put(p, [proc[p] EXCEPT !.user_id = user_id, !.userData = Some(userData),
                                           !.pc = "runs_retrieve"])
         /\ defaultModelLimits' = userData.limits
  /\ UNCHANGED <<KV_USERS, bq, usageRecords, added, subscriptions, started>>

\* if (retrievedRun.status === 'completed')
IsCompleted_AnyTerminal(status) == status \in {"completed", "failed"}
IsCompleted(status) == status = "completed"

\* const retrievedRun = await openAi.beta.threads.runs.retrieve(thread_id, run_id)
RunsRetrieve(p) ==
  /\ proc[p].pc = "runs_retrieve"
  /\ \E status \in Statuses, model \in RunModels :
       proc' = Put(p,
         IF IsCompleted(status)
         THEN [proc[p] EXCEPT !.retrievedRun = Some([status |-> status, model |-> model]),
                              !.pc = "runs_steps"]
         ELSE NextRun(Logged([proc[p] EXCEPT !.notDoneRuns = Append(@, proc[p].items[proc[p].i])],
                             status, "", 0)))
  /\ UNCHANGED <<KV_USERS, defaultModelLimits, bq, usageRecords, added, subscriptions, started>>

\* the steps of the run and the message of every 'message_creation' step
RunsSteps(p) ==
  /\ proc[p].pc = "runs_steps"
  /\ \E messages \in StepMessages :
       proc' = Put(p,
         IF \E n \in 1..Len(messages) : calculateLength(messages[n]) = TypeError
         THEN NextRun(Logged(proc[p], "threw", "", 0))
         ELSE [proc[p] EXCEPT
                 !.count = SumSeq([n \in 1..Len(messages) |-> calculateLength(messages[n])]),
                 !.pc = "runs_sink"])
  /\ UNCHANGED <<KV_USERS, defaultModelLimits, bq, usageRecords, added, subscriptions, started>>

\* await insertBQRecordUsage(...), then the call of incrementUsage
RunsSink(p) ==
  /\ proc[p].pc = "runs_sink"
  /\ LET rec == proc[p]
         parts == split(rec.items[rec.i], "|")
         run == The(rec.retrievedRun)
         amount == Plus(rec.count, parseInt(Piece(parts, 4)))
     IN  /\ bq' = Append(bq, [user_id |-> rec.user_id,
                              stripe_customer_id |-> The(rec.userData).stripe_customer_id,
                              action |-> "assistant_message_creation_by_assistant",
                              model |-> run.model, count |-> rec.count,
                              extra |-> <<IdOf(Piece(parts, 2)), IdOf(Piece(parts, 3))>>])
         /\ proc' = Put(p, incrementUsage(Logged(rec, run.status, run.model, rec.count),
                                          run.model, amount, "runs_next"))
  /\ UNCHANGED <<KV_USERS, defaultModelLimits, usageRecords, added, subscriptions, started>>

\* incrementUsage returned: the loop goes on
RunsNext(p) ==
  /\ proc[p].pc = "runs_next"
  /\ proc' = Put(p, NextRun(proc[p]))
  /\ UNCHANGED <<KV_USERS, defaultModelLimits, bq, usageRecords, added, subscriptions, started>>

\* await env.KV_USERS.put('__tracked_runs', JSON.stringify(notDoneRuns))
RunsPut(p) ==
  /\ proc[p].pc = "runs_put"
  /\ KV_USERS' = [KV_USERS EXCEPT !["__tracked_runs"] = Some(proc[p].notDoneRuns)]
  /\ proc' = Put(p, [proc[p] EXCEPT !.pc = "done"])
  /\ UNCHANGED <<defaultModelLimits, bq, usageRecords, added, subscriptions, started>>

(***************************************************************************)
(* The billing flush.                                                      *)
(***************************************************************************)
\* the lookup keys of a subscription item are one comma-separated string
LookupKey(models) ==
  IF Len(models) = 1 THEN <<models[1]>> ELSE <<models[1], ",", models[2]>>

getSubscriptionItem_AnyItem(subscription, lookupKey) ==
  LET items == [n \in 1..Len(subscription) |-> subscription[n]]
  IN  IF items = <<>> THEN None ELSE Some(items[1])
getSubscriptionItem(subscription, lookupKey) ==
  LET hits == {n \in 1..Len(subscription) :
                 /\ IsSome(subscription[n].lookup_key)
                 /\ <<lookupKey>> \in Range(split(The(subscription[n].lookup_key), ","))}
  IN  IF hits = {} THEN None
      ELSE Some(subscription[CHOOSE n \in hits : \A k \in hits : n <= k])

\* the counters the flush walks: usage_text_since_last_record, then
\* usage_image_since_last_record
BillLines ==
  [n \in 1..(Len(TextKeys) + Len(ImageModels)) |->
     IF n <= Len(TextKeys)
     THEN [field |-> "usage_text_since_last_record", model |-> TextKeys[n]]
     ELSE [field |-> "usage_image_since_last_record", model |-> ImageModels[n - Len(TextKeys)]]]

Quantity_RoundUp(used) == (used + BillingUnit - 1) \div BillingUnit
Quantity(used) == used \div BillingUnit
Remainder_Dropped(used) == 0
Remainder(used) == used % BillingUnit

\* the first counter from line k on with a quantity of at least 1 and a
\* subscription item: its usage record is awaited; with none left the record
\* of the user is written
ToReport(rec, k) ==
  {n \in k..Len(BillLines) :
     /\ Quantity(The(rec.userData)[BillLines[n].field][BillLines[n].model]) >= 1
     /\ IsSome(getSubscriptionItem(rec.subscription, BillLines[n].model))}
NextReport(rec, k) ==
  IF ToReport(rec, k) = {} THEN [rec EXCEPT !.k = 0, !.pc = "bill_put"]
  ELSE [rec EXCEPT !.k = CHOOSE n \in ToReport(rec, k) : \A j \in ToReport(rec, k) : n <= j,
                   !.pc = "bill_report"]

Chargeable(userData) ==
  userData.stripe_customer_id /= "" /\ userData.stripe_customer_id /= "DONT_CHARGE_ME"

\* const userData = await getUserDataById(env, userId)
BillLoad(p) ==
  /\ proc[p].pc = "bill_load"
  /\ LET user_id == proc[p].items[proc[p].i]
         userData == UserDataOf(KV_USERS[user_id], defaultModelLimits)
         rec == [proc[p] EXCEPT !.user_id = user_id, !.userData = Some(userData)]
     IN  /\ proc' = Put(p, IF Chargeable(userData) THEN [rec EXCEPT !.pc = "bill_list"]
                           ELSE NextBillUser(rec))
         /\ defaultModelLimits' = userData.limits
  /\ UNCHANGED <<KV_USERS, bq, usageRecords, added, subscriptions, started>>

\* const subscription = await stripe.subscriptions.list({customer})
BillList(p) ==
  /\ proc[p].pc = "bill_list"
  /\ proc' = Put(p, NextReport([proc[p] EXCEPT
       !.subscription = subscriptions[The(proc[p].userData).stripe_customer_id]], 1))
  /\ UNCHANGED <<KV_USERS, defaultModelLimits, bq, usageRecords, added, subscriptions, started>>

\* await stripe.subscriptionItems.createUsageRecord(item.id, {quantity})
\* userData.usage_..._since_last_record[model] %= 1000
BillReport(p) ==
  /\ proc[p].pc = "bill_report"
  /\ LET rec == proc[p]
         line == BillLines[rec.k]
         used == The(rec.userData)[line.field][line.model]
         item == The(getSubscriptionItem(rec.subscription, line.model))
     IN  /\ usageRecords' = Append(usageRecords,
               [item |-> item.id, quantity |-> Quantity(used),
                user_id |-> rec.user_id, model |-> line.model])
         /\ proc' = Put(p, NextReport(
               [rec EXCEPT !.userData = Some([The(rec.userData) EXCEPT
                                                ![line.field][line.model] = Remainder(used)])],
               rec.k + 1))
  /\ UNCHANGED <<KV_USERS, defaultModelLimits, bq, added, subscriptions, started>>

\* await env.KV_USERS.put(userId, JSON.stringify(userData))
BillPut(p) ==
  /\ proc[p].pc = "bill_put"
  /\ KV_USERS' = [KV_USERS EXCEPT ![proc[p].user_id] = Some(stringify(The(proc[p].userData)))]
  /\ proc' = Put(p, NextBillUser(proc[p]))
  /\ UNCHANGED <<defaultModelLimits, bq, usageRecords, added, subscriptions, started>>

BillDelete_Skipped(p) ==
  /\ proc[p].pc = "bill_delete"
  /\ proc' = Put(p, [proc[p] EXCEPT !.pc = "done"])
  /\ UNCHANGED <<KV_USERS, defaultModelLimits, bq, usageRecords, added, subscriptions, started>>

\* await env.KV_USERS.delete('__usage')
BillDelete(p) ==
  /\ proc[p].pc = "bill_delete"
  /\ KV_USERS' = [KV_USERS EXCEPT !["__usage"] = None]
  /\ proc' = Put(p, [proc[p] EXCEPT !.pc = "done"])
  /\ UNCHANGED <<defaultModelLimits, bq, usageRecords, added, subscriptions, started>>

(***************************************************************************)
(* POST /api/threads/:thread_id/runs/:run_id/submit_tool_outputs: a        *)
(* metered request whose cost is the length of the submitted outputs.      *)
(***************************************************************************)
Chars(n) == [k \in 1..n |-> "x"]
\* the output strings a request can submit
ToolOutputs == { <<Chars(700)>>, <<Chars(1000), Chars(800)>> }
\* the models of the runs the outputs are submitted to
RequestModels == ModelSet
\* calculateLength of an array of strings
OutputsLength(outputs) == SumSeq([n \in 1..Len(outputs) |-> Len(outputs[n])])

submitToolOutputs(p, alone) ==
  /\ CanStart(p, alone)
  /\ started.requests < MaxRequests
  /\ \E u \in Users, outputs \in ToolOutputs :
       proc' = Put(p, [Idle EXCEPT !.kind = "submit_tool_outputs", !.pc = "req_load",
                                   !.user_id = u, !.count = OutputsLength(outputs)])
  /\ started' = [started EXCEPT !.requests = @ + 1]
  /\ UNCHANGED <<KV_USERS, defaultModelLimits, bq, usageRecords, added, subscriptions>>

\* const userData = await getUserDataById(env, userId); 403 unless active
\* and a customer
RequestLoad(p) ==
  /\ proc[p].pc = "req_load"
  /\ LET userData == UserDataOf(KV_USERS[proc[p].user_id], defaultModelLimits)
     IN  /\ proc' = Put(p, [proc[p] EXCEPT
               !.userData = Some(userData),
               !.pc = IF userData.active /\ userData.stripe_customer_id /= ""
                      THEN "req_retrieve" ELSE "done"])
         /\ defaultModelLimits' = userData.limits
  /\ UNCHANGED <<KV_USERS, bq, usageRecords, added, subscriptions, started>>

\* const model = (await client.beta.threads.runs.retrieve(threadId, runId)).model
RequestRetrieve(p) ==
  /\ proc[p].pc = "req_retrieve"
  /\ \E model \in RequestModels :
       proc' = Put(p, [proc[p] EXCEPT !.model = model, !.pc = "req_submit"])
  /\ UNCHANGED <<KV_USERS, defaultModelLimits, bq, usageRecords, added, subscriptions, started>>

\* await client.beta.threads.runs.submitToolOutputs(...)
RequestSubmit(p) ==
  /\ proc[p].pc = "req_submit"
  /\ proc' = Put(p, [proc[p] EXCEPT !.pc = "req_sink"])
  /\ UNCHANGED <<KV_USERS, defaultModelLimits, bq, usageRecords, added, subscriptions, started>>

\* await insertBQRecordUsage(...), then the call of incrementUsage
RequestSink(p) ==
  /\ proc[p].pc = "req_sink"
  /\ bq' = Append(bq, [user_id |-> proc[p].user_id,
                       stripe_customer_id |-> The(proc[p].userData).stripe_customer_id,
                       action |-> "submit_tool_outputs",
                       model |-> proc[p].model, count |-> proc[p].count,
                       extra |-> <<"t1", "r1">>])
  /\ proc' = Put(p, incrementUsage(proc[p], proc[p].model, proc[p].count, "done"))
  /\ UNCHANGED <<KV_USERS, defaultModelLimits, usageRecords, added, subscriptions, started>>

(***************************************************************************)
(* Failing collaborators.  An await inside the per-entry try of the run    *)
(* sweep that rejects is caught by its catch, which logs and goes on with  *)
(* the next entry; any other await of scheduled that rejects is caught by  *)
(* the outer catch, which logs and ends the handler.                       *)
(***************************************************************************)
InRunTry(rec) ==
  /\ rec.kind = CronRuns
  /\ \/ rec.pc \in {"runs_retrieve", "runs_steps", "runs_sink"}
     \/ rec.pc = "inc_put" /\ rec.ret = "runs_next"

RunThrows(p) ==
  /\ InRunTry(proc[p])
  /\ proc' = Put(p, NextRun(Logged([proc[p] EXCEPT !.inc = None], "threw", "", 0)))
  /\ UNCHANGED <<KV_USERS, defaultModelLimits, bq, usageRecords, added, subscriptions, started>>

ScheduledThrows_Escapes(p) ==
  /\ proc[p].kind \in {CronMinute, CronDaily, CronRuns, CronBilling}
  /\ proc[p].pc \notin {"done", "add", "runs_next", "threw"}
  /\ ~InRunTry(proc[p])
  /\ proc' = Put(p, [proc[p] EXCEPT !.pc = "threw", !.aborted = TRUE])
  /\ UNCHANGED <<KV_USERS, defaultModelLimits, bq, usageRecords, added, subscriptions, started>>

ScheduledThrows(p) ==
  /\ proc[p].kind \in {CronMinute, CronDaily, CronRuns, CronBilling}
  /\ proc[p].pc \notin {"done", "add", "runs_next"}
  /\ ~InRunTry(proc[p])
  /\ proc' = Put(p, [proc[p] EXCEPT !.pc = "done", !.aborted = TRUE])
  /\ UNCHANGED <<KV_USERS, defaultModelLimits, bq, usageRecords, added, subscriptions, started>>

(***************************************************************************)
(* The stored records the account handlers leave behind.                   *)
(***************************************************************************)
Customer(u) == IF u = "u1" THEN "cus_1" ELSE "cus_2"
ActiveUser(u) ==
  [getDefaultUserData(InitialModelLimits) EXCEPT !.active = TRUE, !.stripe_customer_id = Customer(u)]

NoLists == [k \in ListKeys |-> None]
Store(users) == [k \in Users \cup ListKeys |-> IF k \in Users THEN users[k] ELSE NoLists[k]]

InitRuns ==
  /\ \E users \in [Users -> {None}] \cup {[u \in Users |-> Some(ActiveUser(u))]} :
       KV_USERS = Store(users)
  /\ defaultModelLimits = InitialModelLimits
  /\ bq = <<>>
  /\ usageRecords = <<>>
  /\ added = [u \in Users |-> [m \in TextKeySet |-> 0]]
  /\ subscriptions = [c \in {Customer(u) : u \in Users} |-> <<>>]
  /\ proc = [p \in Procs |-> Idle]
  /\ started = [jobs |-> 0, requests |-> 0]

RunsStep(p) ==
  \/ GetUsage(p)
  \/ RunsGet(p)
  \/ RunsDelete(p)
  \/ RunsLoad(p)
  \/ RunsRetrieve(p)
  \/ RunsSteps(p)
  \/ RunsSink(p)
  \/ IncrementPut(p)
  \/ RunsNext(p)
  \/ RunsPut(p)
  \/ \E k \in ListKeys : AddStringGet(p, k) \/ AddStringPut(p, k)
  \/ Return(p)

\* the run sweep and the enqueues, one handler at a time, no failing await
NextRuns ==
  \E p \in Procs :
    \/ addTrackedRuns(p, TRUE)
    \/ scheduled(p, CronRuns, TRUE)
    \/ RunsStep(p)

SpecRuns == InitRuns /\ [][NextRuns]_vars

(***************************************************************************)
(* What a finished run sweep did, read off its log and the store.          *)
(***************************************************************************)
UserOfRun(run) == IdOf(Piece(split(run, "|"), 1))
ThreadOfRun(run) == IdOf(Piece(split(run, "|"), 2))
IdOfRun(run) == IdOf(Piece(split(run, "|"), 3))
Tracked == IF IsSome(KV_USERS["__tracked_runs"]) THEN The(KV_USERS["__tracked_runs"]) ELSE <<>>
Occurrences(list, x) == Cardinality({n \in 1..Len(list) : list[n] = x})

SweepDone(p) == proc[p].kind = CronRuns /\ proc[p].pc = "done" /\ ~proc[p].aborted

\* the sink rows of a run appended since the sweep started
NewSinkRows(p, run) ==
  Cardinality({n \in (Len(The(proc[p].old).bq) + 1)..Len(bq) :
                 /\ bq[n].user_id = UserOfRun(run)
                 /\ bq[n].extra = <<ThreadOfRun(run), IdOfRun(run)>>})

\* the provisional cost a run was enqueued with
ProvisionalOf(run) ==
  (CHOOSE in \in TrackedInputs : TrackedRunKey(in[1], in[2], in[3], in[4]) = run)[4]

\* what the sweep's completed runs of user u and model m add up to
ChargedBySweep(p, u, m) ==
  SumSeq([n \in 1..Len(proc[p].log) |->
            IF /\ proc[p].log[n].outcome = "completed"
               /\ UserOfRun(proc[p].log[n].run) = u
               /\ proc[p].log[n].model = m
            THEN proc[p].log[n].count + ProvisionalOf(proc[p].log[n].run) ELSE 0])

StoredRecord(kv, u) == UserDataOf(kv[u], InitialModelLimits)

\* the stored counters of u for m are the ones before the sweep plus n
GrewBy(p, u, m, n) ==
  LET before == StoredRecord(The(proc[p].old).KV_USERS, u)
      after == StoredRecord(KV_USERS, u)
  IN  /\ after.used[m].minute = before.used[m].minute + n
      /\ after.used[m].day = before.used[m].day + n
      /\ after.usage_text_since_last_record[m] = before.usage_text_since_last_record[m] + n

\* C1 as stated: after a sweep, every run it polled as 'completed' is out of
\* '__tracked_runs', has exactly one new sink row, and the counters of the
\* run's model grew by what the sweep charged for that user and model
C1_Original ==
  \A p \in Procs : SweepDone(p) =>
    \A n \in 1..Len(proc[p].log) :
      LET e == proc[p].log[n] IN
      e.outcome = "completed" =>
        /\ e.run \notin Range(Tracked)
        /\ NewSinkRows(p, e.run) = 1
        /\ e.model \in TextKeySet
        /\ GrewBy(p, UserOfRun(e.run), e.model, ChargedBySweep(p, UserOfRun(e.run), e.model))

\* C1 for a model that has a usage entry: after a sweep, every run it polled as 'completed' and
\* reconciled without an error is out of '__tracked_runs' and has exactly
\* one new sink row; every counter of every user grew by exactly the sum of
\* (actual cost + provisional cost) over the completed runs of that user and
\* model, so a run is charged once when its model has a usage entry and
\* not at all when it has none
C1_CompletedRunChargedOnce ==
  \A p \in Procs : SweepDone(p) =>
    /\ \A n \in 1..Len(proc[p].log) :
         LET e == proc[p].log[n] IN
         e.outcome = "completed" =>
           /\ e.run \notin Range(Tracked)
           /\ NewSinkRows(p, e.run) = 1
    /\ \A u \in Users, m \in TextKeySet : GrewBy(p, u, m, ChargedBySweep(p, u, m))

C1_Witness ==
  \E p \in Procs : SweepDone(p) /\
    \E n \in 1..Len(proc[p].log) :
      /\ proc[p].log[n].outcome = "completed"
      /\ proc[p].log[n].model \in ModelSet
      /\ ProvisionalOf(proc[p].log[n].run) = 7
      /\ proc[p].log[n].count > 0

\* C3: after a sweep, every run it polled with a status other than
\* 'completed' is in '__tracked_runs' once, under the very key it was read
\* with, has no new sink row, and added nothing to any counter
C3_NotCompletedRequeued ==
  \A p \in Procs : SweepDone(p) =>
    /\ \A n \in 1..Len(proc[p].log) :
         LET e == proc[p].log[n] IN
         e.outcome \in Statuses \ {"completed"} =>
           /\ Occurrences(Tracked, e.run) = 1
           /\ NewSinkRows(p, e.run) = 0
    /\ \A u \in Users :
         (\A n \in 1..Len(proc[p].log) :
            UserOfRun(proc[p].log[n].run) = u => proc[p].log[n].outcome /= "completed")
         => KV_USERS[u] = The(proc[p].old).KV_USERS[u]

C3_Witness ==
  \E p \in Procs : SweepDone(p) /\ Len(proc[p].log) = 2 /\
    /\ proc[p].log[1].outcome = "failed"
    /\ proc[p].log[2].outcome = "completed"
    /\ UserOfRun(proc[p].log[1].run) = UserOfRun(proc[p].log[2].run)

\* the run sweep and the enqueues, one handler at a time, with awaits that
\* may reject
NextRunsFault ==
  \E p \in Procs :
    \/ addTrackedRuns(p, TRUE)
    \/ scheduled(p, CronRuns, TRUE)
    \/ RunsStep(p)
    \/ RunThrows(p)
    \/ ScheduledThrows(p)

SpecRunsFault == InitRuns /\ [][NextRunsFault]_vars

\* C2 as stated: after a sweep, every run whose poll or reconciliation
\* raised inside the per-entry handler is still in '__tracked_runs', and
\* every entry of the drained list was processed
C2_Original ==
  \A p \in Procs : SweepDone(p) =>
    /\ Len(proc[p].log) = Len(proc[p].items)
    /\ \A n \in 1..Len(proc[p].log) :
         proc[p].log[n].outcome = "threw" => proc[p].log[n].run \in Range(Tracked)

NoJobRuns == \A q \in Procs : proc[q].kind \notin {CronMinute, CronDaily, CronRuns, CronBilling}

\* one run sweep at a time and the enqueues, interleaved at their awaits
NextRunsConc ==
  \E p \in Procs :
    \/ addTrackedRuns(p, FALSE)
    \/ NoJobRuns /\ scheduled(p, CronRuns, FALSE)
    \/ RunsStep(p)

SpecRunsConc == InitRuns /\ [][NextRunsConc]_vars

\* C4 as stated: the write of the not-done list at the end of a sweep keeps
\* every run that is in '__tracked_runs' at that moment, that is every run
\* enqueued since the sweep cleared the list
C4_Original ==
  [][\A p \in Procs :
       (proc[p].pc = "runs_put" /\ proc'[p].pc = "done")
       => Range(Tracked) \subseteq Range(Tracked')]_vars

(***************************************************************************)
(* The billing flush and the metered requests.                             *)
(***************************************************************************)
BothModels == [id |-> "si_both", lookup_key |-> Some(LookupKey(Models))]
OnlyFirst == [id |-> "si_first", lookup_key |-> Some(LookupKey(<<Models[1]>>))]
NoKey == [id |-> "si_nokey", lookup_key |-> None]
SubscriptionChoices == { <<BothModels>>, <<NoKey, OnlyFirst>>, <<>> }

InitBilling ==
  /\ \E second \in {Customer("u2"), "DONT_CHARGE_ME"} :
       KV_USERS = Store([u \in Users |->
                    Some(IF u = "u1" THEN ActiveUser(u)
                         ELSE [ActiveUser(u) EXCEPT !.stripe_customer_id = second])])
  /\ defaultModelLimits = InitialModelLimits
  /\ bq = <<>>
  /\ usageRecords = <<>>
  /\ added = [u \in Users |-> [m \in TextKeySet |-> 0]]
  /\ \E first \in SubscriptionChoices :
       subscriptions = [c \in {Customer(u) : u \in Users} |->
                          IF c = Customer("u1") THEN first ELSE <<BothModels>>]
  /\ proc = [p \in Procs |-> Idle]
  /\ started = [jobs |-> 0, requests |-> 0]

RequestStep(p) ==
  \/ RequestLoad(p)
  \/ RequestRetrieve(p)
  \/ RequestSubmit(p)
  \/ RequestSink(p)

BillStep(p) ==
  \/ GetUsage(p)
  \/ BillLoad(p)
  \/ BillList(p)
  \/ BillReport(p)
  \/ BillPut(p)
  \/ BillDelete(p)
  \/ IncrementPut(p)
  \/ \E k \in ListKeys : AddStringGet(p, k) \/ AddStringPut(p, k)
  \/ Return(p)

\* the billing flush and the metered requests, one handler at a time, no
\* failing await
NextBilling ==
  \E p \in Procs :
    \/ submitToolOutputs(p, TRUE)
    \/ scheduled(p, CronBilling, TRUE)
    \/ RequestStep(p)
    \/ BillStep(p)

SpecBilling == InitBilling /\ [][NextBilling]_vars

\* the same with awaits of the scheduled handler that may reject
NextBillingFault ==
  \E p \in Procs :
    \/ submitToolOutputs(p, TRUE)
    \/ scheduled(p, CronBilling, TRUE)
    \/ RequestStep(p)
    \/ BillStep(p)
    \/ ScheduledThrows(p)

SpecBillingFault == InitBilling /\ [][NextBillingFault]_vars

(***************************************************************************)
(* What a finished billing flush did, read off the store and the usage     *)
(* records of the billing collaborator.                                    *)
(***************************************************************************)
FlushDone(p) == proc[p].kind = CronBilling /\ proc[p].pc = "done" /\ ~proc[p].aborted
NoFlushRuns == \A p \in Procs : proc[p].kind = CronBilling => FlushDone(p)

SinceOf(kv, u, m) == StoredRecord(kv, u).usage_text_since_last_record[m]
UsageList == IF IsSome(KV_USERS["__usage"]) THEN The(KV_USERS["__usage"]) ELSE <<>>

\* the flush of p read u in '__usage' and u had a customer to charge
VisitedBy(p, u) ==
  /\ u \in Range(proc[p].items)
  /\ Chargeable(StoredRecord(The(proc[p].old).KV_USERS, u))

\* the subscription items of u's customer whose lookup keys name m
ItemsCovering(u, m) ==
  LET c == StoredRecord(KV_USERS, u).stripe_customer_id
      items == IF c \in DOMAIN subscriptions THEN subscriptions[c] ELSE <<>>
  IN  {n \in 1..Len(items) :
         \E names \in {<<Models[1]>>, <<Models[2]>>, Models} :
           /\ items[n].lookup_key = Some(LookupKey(names))
           /\ m \in Range(names)}

\* the usage records for u and m, all of them and those of the flush of p
RecordsOf(u, m) ==
  {n \in 1..Len(usageRecords) : usageRecords[n].user_id = u /\ usageRecords[n].model = m}
NewRecordsOf(p, u, m) == {n \in RecordsOf(u, m) : n > Len(The(proc[p].old).usageRecords)}
ReportedOf(u, m) ==
  SumSeq([n \in 1..Len(usageRecords) |->
            IF n \in RecordsOf(u, m) THEN usageRecords[n].quantity ELSE 0])

\* C5: whenever no flush is under way, for every user and model the
\* quantities reported so far times 1000 plus the stored
\* usage_text_since_last_record equal what incrementUsage has added in
\* all, and every reported quantity is at least 1
C5_BillingConservation ==
  NoFlushRuns =>
    /\ \A u \in Users, m \in TextKeySet :
         ReportedOf(u, m) * 1000 + SinceOf(KV_USERS, u, m) = added[u][m]
    /\ \A n \in 1..Len(usageRecords) : usageRecords[n].quantity >= 1

C5_Witness ==
  /\ NoFlushRuns
  /\ \E u \in Users, m \in TextKeySet :
       /\ Cardinality(RecordsOf(u, m)) >= 2
       /\ SinceOf(KV_USERS, u, m) > 0

\* C6 as stated: no unit is reported twice, so what was reported for a user
\* and model never exceeds what incrementUsage added for them
C6_Original ==
  \A u \in Users, m \in TextKeySet : ReportedOf(u, m) * 1000 <= added[u][m]

\* C7: after a flush, for every visited user and every model a subscription
\* item covers: a value u >= 1000 before the flush gave exactly one usage
\* record, of quantity floor(u / 1000), and is now u mod 1000; a value
\* below 1000 gave no record and is unchanged
C7_QuantityAndRemainder ==
  \A p \in Procs : FlushDone(p) =>
    \A u \in Users, m \in TextKeySet :
      (VisitedBy(p, u) /\ ItemsCovering(u, m) /= {}) =>
        LET before == SinceOf(The(proc[p].old).KV_USERS, u, m)
            new == NewRecordsOf(p, u, m)
        IN  IF before >= 1000
            THEN /\ Cardinality(new) = 1
                 /\ \A n \in new : usageRecords[n].quantity = before \div 1000
                 /\ SinceOf(KV_USERS, u, m) = before % 1000
            ELSE /\ new = {}
                 /\ SinceOf(KV_USERS, u, m) = before

C7_Witness ==
  \E p \in Procs : FlushDone(p) /\
    \E u \in Users, m \in TextKeySet :
      /\ VisitedBy(p, u)
      /\ ItemsCovering(u, m) /= {}
      /\ SinceOf(The(proc[p].old).KV_USERS, u, m) = 2500
      /\ SinceOf(KV_USERS, u, m) = 500

\* C8: after a flush, for every visited user and every model no
\* subscription item covers, no usage record was sent and the stored
\* usage_text_since_last_record is what it was
C8_NoLineNoReport ==
  \A p \in Procs : FlushDone(p) =>
    \A u \in Users, m \in TextKeySet :
      (VisitedBy(p, u) /\ ItemsCovering(u, m) = {}) =>
        /\ NewRecordsOf(p, u, m) = {}
        /\ SinceOf(KV_USERS, u, m) = SinceOf(The(proc[p].old).KV_USERS, u, m)

C8_Witness ==
  \E p \in Procs : FlushDone(p) /\
    \E u \in Users, m \in TextKeySet :
      /\ VisitedBy(p, u)
      /\ ItemsCovering(u, m) = {}
      /\ SinceOf(KV_USERS, u, m) >= 1000
      /\ \E other \in TextKeySet : NewRecordsOf(p, u, other) /= {}

C10_UsageCleared ==
  \A p \in Procs : FlushDone(p) => ~IsSome(KV_USERS["__usage"])

C10_Witness ==
  \E p \in Procs : FlushDone(p) /\
    /\ Len(proc[p].items) = 2
    /\ \E u \in Users : u \in Range(proc[p].items) /\ ~VisitedBy(p, u)
    /\ \E u \in Users, m \in TextKeySet : NewRecordsOf(p, u, m) /= {}

(***************************************************************************)
(* The admission functions of the request path.                            *)
(***************************************************************************)
Windows == <<"minute", "day">>

\* Math.max(0, thisLimit - used)
WindowRemaining(userData, model, type) ==
  IF userData.limits[model][type] - userData.used[model][type] > 0
  THEN userData.limits[model][type] - userData.used[model][type] ELSE 0

Min_First(a, b) == a
Min(a, b) == IF a < b THEN a ELSE b

RECURSIVE RemainingFrom_ZeroIsUnlimited(_, _, _, _)
RemainingFrom_ZeroIsUnlimited(userData, model, n, calculatedLimit) ==
  IF n > Len(Windows) THEN calculatedLimit
  ELSE LET thisLimit == userData.limits[model][Windows[n]]
       IN  IF thisLimit /= NullLimit /\ thisLimit /= 0
           THEN RemainingFrom_ZeroIsUnlimited(userData, model, n + 1,
                  IF calculatedLimit = NullLimit THEN WindowRemaining(userData, model, Windows[n])
                  ELSE Min(calculatedLimit, WindowRemaining(userData, model, Windows[n])))
           ELSE RemainingFrom_ZeroIsUnlimited(userData, model, n + 1, calculatedLimit)

\* the loop of getRemainingModelUsageByData from window n on; calculatedLimit
\* is NullLimit while it is null
RECURSIVE RemainingFrom(_, _, _, _)
RemainingFrom(userData, model, n, calculatedLimit) ==
  IF n > Len(Windows) THEN calculatedLimit
  ELSE LET thisLimit == userData.limits[model][Windows[n]]
       IN  IF thisLimit = 0 THEN 0
           ELSE IF thisLimit /= NullLimit
           THEN RemainingFrom(userData, model, n + 1,
                  IF calculatedLimit = NullLimit THEN WindowRemaining(userData, model, Windows[n])
                  ELSE Min(calculatedLimit, WindowRemaining(userData, model, Windows[n])))
           ELSE RemainingFrom(userData, model, n + 1, calculatedLimit)

getRemainingModelUsageByData_MinuteOnly(userData, model) ==
  IF ~userData.active \/ userData.stripe_customer_id = "" THEN 0
  ELSE IF model \notin DOMAIN userData.limits THEN 0
  ELSE IF userData.limits[model].minute = NullLimit THEN NullLimit
  ELSE WindowRemaining(userData, model, "minute")

getRemainingModelUsageByData(userData, model) ==
  IF ~userData.active \/ userData.stripe_customer_id = "" THEN 0
  ELSE IF model \notin DOMAIN userData.limits THEN 0
  ELSE RemainingFrom(userData, model, 1, NullLimit)

\* the part of checkModelUsage before its await: the limit object is there
\* and no window with a limit has used >= limit
WithinLimits_Strict(userData, model) ==
  /\ model \in DOMAIN userData.limits
  /\ \A n \in 1..Len(Windows) :
       LET thisLimit == userData.limits[model][Windows[n]]
       IN  thisLimit = NullLimit \/ ~(userData.used[model][Windows[n]] > thisLimit)

WithinLimits(userData, model) ==
  /\ model \in DOMAIN userData.limits
  /\ \A n \in 1..Len(Windows) :
       LET thisLimit == userData.limits[model][Windows[n]]
       IN  thisLimit = NullLimit \/ ~(userData.used[model][Windows[n]] >= thisLimit)

\* if (!userData || !userData.active || !userData.stripe_customer_id) -> 403
Forbidden(userData) == ~userData.active \/ userData.stripe_customer_id = ""

(***************************************************************************)
(* POST /api/generate: admission, then the two post-hoc increments (the    *)
(* length of the request's content, the length of the streamed answer).    *)
(***************************************************************************)
\* the models a request can name
AdmitModels == {"gpt-4", UnmeteredModel}
\* calculateLength(body.content), never 0 past the 400 of the handler
ContentLengths == {2, 5, 7}
\* the characters the stream delivers
StreamCounts == {0, 2, 5}

generate(p, alone) ==
  /\ CanStart(p, alone)
  /\ started.requests < MaxRequests
  /\ \E u \in Users, model \in AdmitModels :
       proc' = Put(p, [Idle EXCEPT !.kind = "generate", !.pc = "gen_load", !.user_id = u,
                                   !.model = model, !.old = Some(Snapshot)])
  /\ started' = [started EXCEPT !.requests = @ + 1]
  /\ UNCHANGED <<KV_USERS, defaultModelLimits, bq, usageRecords, added, subscriptions>>

\* getUserDataById, the 403, and checkModelUsage(userId, userData, env, model, 0)
GenerateLoad(p) ==
  /\ proc[p].pc = "gen_load"
  /\ LET userData == UserDataOf(KV_USERS[proc[p].user_id], defaultModelLimits)
         ok == ~Forbidden(userData) /\ WithinLimits(userData, proc[p].model)
     IN  /\ proc' = Put(p, [proc[p] EXCEPT
               !.userData = Some(userData),
               !.allowed = IF ok THEN None ELSE Some(FALSE),
               !.pc = IF ok THEN "gen_remaining" ELSE "done"])
         /\ defaultModelLimits' = userData.limits
  /\ UNCHANGED <<KV_USERS, bq, usageRecords, added, subscriptions, started>>

\* getRemainingModelUsage reads the record again; 429 when nothing remains
GenerateRemaining(p) ==
  /\ proc[p].pc = "gen_remaining"
  /\ LET userData == UserDataOf(KV_USERS[proc[p].user_id], defaultModelLimits)
         remainingUsage == getRemainingModelUsageByData(userData, proc[p].model)
         ok == remainingUsage = NullLimit \/ remainingUsage > 0
     IN  /\ proc' = Put(p, [proc[p] EXCEPT
               !.remainingUsage = Some(remainingUsage),
               !.measured = Some(userData),
               !.allowed = Some(ok),
               !.pc = IF ok THEN "gen_create" ELSE "done"])
         /\ defaultModelLimits' = userData.limits
  /\ UNCHANGED <<KV_USERS, bq, usageRecords, added, subscriptions, started>>

\* the moderation and the creation of the stream; a flagged content is a 403
GenerateCreate(p) ==
  /\ proc[p].pc = "gen_create"
  /\ \/ proc' = Put(p, [proc[p] EXCEPT !.pc = "done"])
     \/ \E length \in ContentLengths :
          proc' = Put(p, [proc[p] EXCEPT !.count = length, !.pc = "gen_sink_user"])
  /\ UNCHANGED <<KV_USERS, defaultModelLimits, bq, usageRecords, added, subscriptions, started>>

GenerateRow(rec, action) ==
  [user_id |-> rec.user_id, stripe_customer_id |-> The(rec.userData).stripe_customer_id,
   action |-> action, model |-> rec.model, count |-> rec.count, extra |-> <<>>]

\* insertBQRecordUsage('generate_chat_by_user'), incrementUsage(length)
GenerateSinkUser(p) ==
  /\ proc[p].pc = "gen_sink_user"
  /\ bq' = Append(bq, GenerateRow(proc[p], "generate_chat_by_user"))
  /\ proc' = Put(p, incrementUsage(proc[p], proc[p].model, proc[p].count, "gen_stream"))
  /\ UNCHANGED <<KV_USERS, defaultModelLimits, usageRecords, added, subscriptions, started>>

\* for await (const chunk of stream) count += content.length
GenerateStream(p) ==
  /\ proc[p].pc = "gen_stream"
  /\ \E count \in StreamCounts :
       proc' = Put(p, [proc[p] EXCEPT !.count = count, !.pc = "gen_sink_assistant"])
  /\ UNCHANGED <<KV_USERS, defaultModelLimits, bq, usageRecords, added, subscriptions, started>>

\* insertBQRecordUsage('generated_chat_by_assistant'), incrementUsage(count)
GenerateSinkAssistant(p) ==
  /\ proc[p].pc = "gen_sink_assistant"
  /\ bq' = Append(bq, GenerateRow(proc[p], "generated_chat_by_assistant"))
  /\ proc' = Put(p, incrementUsage(proc[p], proc[p].model, proc[p].count, "done"))
  /\ UNCHANGED <<KV_USERS, defaultModelLimits, usageRecords, added, subscriptions, started>>

(***************************************************************************)
(* checkModelUsage applied with any incrementUsageBy, to the record a      *)
(* handler loaded and let through its 403.                                 *)
(***************************************************************************)
ProvisionalAmounts == {0, 5}

checkModelUsage(p, alone) ==
  /\ CanStart(p, alone)
  /\ started.requests < MaxRequests
  /\ \E u \in Users, model \in AdmitModels, incrementUsageBy \in ProvisionalAmounts :
       proc' = Put(p, [Idle EXCEPT !.kind = "checkModelUsage", !.pc = "check_load",
                                   !.user_id = u, !.model = model,
                                   !.incrementUsageBy = incrementUsageBy,
                                   !.old = Some(Snapshot)])
  /\ started' = [started EXCEPT !.requests = @ + 1]
  /\ UNCHANGED <<KV_USERS, defaultModelLimits, bq, usageRecords, added, subscriptions>>

\* the body of checkModelUsage up to its await of incrementUsage
CheckLoad(p) ==
  /\ proc[p].pc = "check_load"
  /\ LET userData == UserDataOf(KV_USERS[proc[p].user_id], defaultModelLimits)
         rec == [proc[p] EXCEPT !.userData = Some(userData)]
     IN  /\ proc' = Put(p,
               IF Forbidden(userData) \/ ~WithinLimits(userData, rec.model)
               THEN [rec EXCEPT !.allowed = Some(FALSE), !.pc = "done"]
               ELSE IF Truthy(rec.incrementUsageBy)
               THEN incrementUsage(rec, rec.model, rec.incrementUsageBy, "check_return")
               ELSE [rec EXCEPT !.pc = "check_return"])
         /\ defaultModelLimits' = userData.limits
  /\ UNCHANGED <<KV_USERS, bq, usageRecords, added, subscriptions, started>>

\* return true
CheckReturn(p) ==
  /\ proc[p].pc = "check_return"
  /\ proc' = Put(p, [proc[p] EXCEPT !.allowed = Some(TRUE), !.pc = "done"])
  /\ UNCHANGED <<KV_USERS, defaultModelLimits, bq, usageRecords, added, subscriptions, started>>

(***************************************************************************)
(* getRemainingModelUsage applied to any user and model.                   *)
(***************************************************************************)
getRemainingModelUsage(p, alone) ==
  /\ CanStart(p, alone)
  /\ started.requests < MaxRequests
  /\ \E u \in Users, model \in AdmitModels :
       proc' = Put(p, [Idle EXCEPT !.kind = "getRemainingModelUsage", !.pc = "remaining_load",
                                   !.user_id = u, !.model = model, !.old = Some(Snapshot)])
  /\ started' = [started EXCEPT !.requests = @ + 1]
  /\ UNCHANGED <<KV_USERS, defaultModelLimits, bq, usageRecords, added, subscriptions>>

\* const userData = await getUserData(request, env), then the ...ByData
RemainingLoad(p) ==
  /\ proc[p].pc = "remaining_load"
  /\ LET userData == UserDataOf(KV_USERS[proc[p].user_id], defaultModelLimits)
     IN  /\ proc' = Put(p, [proc[p] EXCEPT
               !.measured = Some(userData),
               !.remainingUsage = Some(getRemainingModelUsageByData(userData, proc[p].model)),
               !.pc = "done"])
         /\ defaultModelLimits' = userData.limits
  /\ UNCHANGED <<KV_USERS, bq, usageRecords, added, subscriptions, started>>

(***************************************************************************)
(* The records the admission functions meet: limits an operator stored     *)
(* for a user over the defaults, counters as earlier requests and resets   *)
(* left them (a minute reset zeroes the minute window only).               *)
(***************************************************************************)
Window(minute, day) == [minute |-> minute, day |-> day]
\* <<limits, used>> of u1 for gpt-4
QuotaChoices ==
  { <<Window(10, NullLimit), Window(8, 8)>>,
    <<Window(10, NullLimit), Window(10, 30)>>,
    <<Window(10, 20), Window(0, 0)>>,
    <<Window(10, 20), Window(8, 19)>>,
    <<Window(10, 20), Window(0, 20)>>,
    <<Window(10, 20), Window(12, 12)>>,
    <<Window(0, NullLimit), Window(0, 0)>>,
    <<Window(NullLimit, 0), Window(0, 0)>>,
    <<Window(0, 20), Window(0, 0)>>,
    <<Window(10, 0), Window(8, 8)>>,
    <<Window(NullLimit, NullLimit), Window(8, 8)>> }

QuotaUser(u, quota) ==
  [ActiveUser(u) EXCEPT !.limits["gpt-4"] = quota[1], !.used["gpt-4"] = quota[2]]

\* u2 has no record yet, or signed up and has no customer yet
OtherUsers == {None, Some([getDefaultUserData(InitialModelLimits) EXCEPT !.active = TRUE])}

InitAdmit ==
  /\ \E quota \in QuotaChoices, other \in OtherUsers :
       KV_USERS = Store([u \in Users |-> IF u = "u1" THEN Some(QuotaUser(u, quota)) ELSE other])
  /\ defaultModelLimits = InitialModelLimits
  /\ bq = <<>>
  /\ usageRecords = <<>>
  /\ added = [u \in Users |-> [m \in TextKeySet |-> 0]]
  /\ subscriptions = [c \in {Customer(u) : u \in Users} |-> <<>>]
  /\ proc = [p \in Procs |-> Idle]
  /\ started = [jobs |-> 0, requests |-> 0]

AdmitStep(p) ==
  \/ GenerateLoad(p)
  \/ GenerateRemaining(p)
  \/ GenerateCreate(p)
  \/ GenerateSinkUser(p)
  \/ GenerateStream(p)
  \/ GenerateSinkAssistant(p)
  \/ CheckLoad(p)
  \/ CheckReturn(p)
  \/ RemainingLoad(p)
  \/ IncrementPut(p)
  \/ \E k \in ListKeys : AddStringGet(p, k) \/ AddStringPut(p, k)
  \/ Return(p)

\* the metered requests, one handler at a time
NextAdmit ==
  \E p \in Procs :
    \/ generate(p, TRUE)
    \/ checkModelUsage(p, TRUE)
    \/ getRemainingModelUsage(p, TRUE)
    \/ AdmitStep(p)

SpecAdmit == InitAdmit /\ [][NextAdmit]_vars

(***************************************************************************)
(* What the admission functions answered, read off the handler.            *)
(***************************************************************************)
Admitting(p) == proc[p].kind \in {"generate", "checkModelUsage"} /\ IsSome(proc[p].userData)
\* the record as the handler loaded it, before any increment of its own
LoadedBy(p) == IF proc[p].calls = <<>> THEN The(proc[p].userData) ELSE proc[p].calls[1].before
Decided(p) == Admitting(p) /\ IsSome(proc[p].allowed)

\* some window of the model with a limit has used >= limit
WindowFull(r, model) ==
  \E w \in {"minute", "day"} :
    r.limits[model][w] /= NullLimit /\ r.used[model][w] >= r.limits[model][w]

MustDeny(r, model) ==
  \/ ~r.active
  \/ r.stripe_customer_id = ""
  \/ model \notin DOMAIN r.limits
  \/ WindowFull(r, model)

\* C11: a handler that loaded a record of an inactive user, of a user
\* without a customer id, without a limit object for the model, or with a
\* window at or over its limit denies; otherwise it allows, whatever the
\* provisional amount is (the comparison is on the counters as loaded)
C11_AdmitDenies ==
  \A p \in Procs : Admitting(p) =>
    /\ MustDeny(LoadedBy(p), proc[p].model) => proc[p].allowed = Some(FALSE)
    /\ Decided(p) => (The(proc[p].allowed) = ~MustDeny(LoadedBy(p), proc[p].model))

C11_Witness ==
  \E p \in Procs :
    /\ Decided(p) /\ proc[p].kind = "checkModelUsage" /\ proc[p].incrementUsageBy > 0
    /\ proc[p].allowed = Some(FALSE)
    /\ LoadedBy(p).active /\ LoadedBy(p).stripe_customer_id /= ""
    /\ proc[p].model \in DOMAIN LoadedBy(p).limits
    /\ LoadedBy(p).used[proc[p].model].minute = LoadedBy(p).limits[proc[p].model].minute

\* a generate handler that decided, on a record of an active user with a
\* customer id whose model has a minute limit
MinuteLimited(p) ==
  /\ Decided(p) /\ proc[p].kind = "generate"
  /\ LoadedBy(p).active /\ LoadedBy(p).stripe_customer_id /= ""
  /\ proc[p].model \in DOMAIN LoadedBy(p).limits
  /\ LoadedBy(p).limits[proc[p].model].minute /= NullLimit

\* C12 as stated: with limits.minute = L and used.minute = U, U < L gives
\* allowed = true and a remaining capacity of L - U, and U >= L gives
\* allowed = false
C12_Original ==
  \A p \in Procs : MinuteLimited(p) =>
    LET L == LoadedBy(p).limits[proc[p].model].minute
        U == LoadedBy(p).used[proc[p].model].minute
    IN  /\ U < L => proc[p].allowed = Some(TRUE) /\ proc[p].remainingUsage = Some(L - U)
        /\ U >= L => proc[p].allowed = Some(FALSE)

\* C12 with the day window: with limits.minute = L and used.minute = U < L,
\* and a day limit that is null or above used.day, admission is allowed and
\* the remaining capacity is the smaller of L - U and day limit - used.day
\* (L - U when the day limit is null); with U >= L admission is denied
C12_MinuteAndDayWindow ==
  \A p \in Procs : MinuteLimited(p) =>
    LET L == LoadedBy(p).limits[proc[p].model].minute
        U == LoadedBy(p).used[proc[p].model].minute
        D == LoadedBy(p).limits[proc[p].model].day
        V == LoadedBy(p).used[proc[p].model].day
    IN  /\ (U < L /\ (D = NullLimit \/ V < D)) =>
             /\ proc[p].allowed = Some(TRUE)
             /\ proc[p].remainingUsage =
                  Some(IF D = NullLimit \/ L - U <= D - V THEN L - U ELSE D - V)
        /\ U >= L => proc[p].allowed = Some(FALSE)

C12_Witness ==
  \E p \in Procs :
    /\ MinuteLimited(p)
    /\ proc[p].allowed = Some(TRUE)
    /\ LoadedBy(p).limits[proc[p].model] = Window(10, 20)
    /\ LoadedBy(p).used[proc[p].model] = Window(8, 19)
    /\ proc[p].remainingUsage = Some(1)

\* the record stored for u, read with the limits the module starts with
StoredNow(u) == StoredRecord(KV_USERS, u)

\* checkModelUsage was applied with declared cost 5 to a record with limits
\* {minute: 10, day: null} and used.minute = 8
Scenario(p) ==
  /\ Decided(p) /\ proc[p].kind = "checkModelUsage"
  /\ proc[p].incrementUsageBy = 5
  /\ ~Forbidden(LoadedBy(p))
  /\ proc[p].model \in DOMAIN LoadedBy(p).limits
  /\ LoadedBy(p).limits[proc[p].model] = Window(10, NullLimit)
  /\ LoadedBy(p).used[proc[p].model].minute = 8

\* an incrementUsage of 2 on a record with used.minute = 8 has returned
PostHoc(p) ==
  /\ proc[p].kind = "generate" /\ proc[p].pc = "gen_stream"
  /\ Len(proc[p].calls) = 1
  /\ proc[p].calls[1].count = 2
  /\ proc[p].calls[1].before.used[proc[p].model].minute = 8

\* C13 as stated: with limits {minute: 10, day: null} and used.minute = 8,
\* admission of an operation with declared cost 5 is denied, and a post-hoc
\* increment of 2 on the record brings used.minute to 10
C13_Original ==
  \A p \in Procs :
    /\ Scenario(p) => proc[p].allowed = Some(FALSE)
    /\ PostHoc(p) => StoredNow(proc[p].user_id).used[proc[p].model].minute = 10

\* C13 as the code does it: with limits {minute: 10, day: null} and
\* used.minute = 8, admission of an operation with declared cost 5 is
\* allowed because 8 < 10, and its pre-charge brings the stored used.minute
\* to 13; an increment of 2 on a record with used.minute = 8 brings the
\* stored used.minute to 10
C13_ScenarioAllowed ==
  \A p \in Procs :
    /\ Scenario(p) =>
         /\ proc[p].allowed = Some(TRUE)
         /\ StoredNow(proc[p].user_id).used[proc[p].model].minute = 13
    /\ PostHoc(p) => StoredNow(proc[p].user_id).used[proc[p].model].minute = 10

C13_Witness ==
  \E p \in Procs :
    /\ Scenario(p)
    /\ proc[p].allowed = Some(TRUE)
    /\ StoredRecord(The(proc[p].old).KV_USERS, proc[p].user_id).used[proc[p].model].minute = 8
    /\ StoredNow(proc[p].user_id).used[proc[p].model].minute = 13

ListNow(k) == IF IsSome(KV_USERS[k]) THEN The(KV_USERS[k]) ELSE <<>>
StoredBefore(p) == StoredRecord(The(proc[p].old).KV_USERS, proc[p].user_id)

\* checkModelUsage returned to a caller that passed a provisional amount
PreCharged(p) ==
  /\ proc[p].kind = "checkModelUsage" /\ proc[p].pc = "done"
  /\ proc[p].incrementUsageBy > 0

\* C14: when checkModelUsage returns from a call with a provisional amount
\* p > 0, either it allowed, the stored used.minute, used.day and
\* usage_text_since_last_record of the model are p above what they were and
\* the user is in '__usage' and '__usage_daily', or it denied and the whole
\* store (records and lists) is as it was
C14_PreCharge ==
  \A p \in Procs : PreCharged(p) =>
    LET u == proc[p].user_id
        m == proc[p].model
        by == proc[p].incrementUsageBy
    IN  /\ proc[p].allowed = Some(TRUE) =>
             /\ StoredNow(u).used[m].minute = StoredBefore(p).used[m].minute + by
             /\ StoredNow(u).used[m].day = StoredBefore(p).used[m].day + by
             /\ StoredNow(u).usage_text_since_last_record[m]
                  = StoredBefore(p).usage_text_since_last_record[m] + by
             /\ u \in Range(ListNow("__usage"))
             /\ u \in Range(ListNow("__usage_daily"))
        /\ proc[p].allowed = Some(FALSE) => KV_USERS = The(proc[p].old).KV_USERS
        /\ IsSome(proc[p].allowed)

C14_Witness ==
  \E p \in Procs :
    /\ PreCharged(p)
    /\ proc[p].allowed = Some(TRUE)
    /\ proc[p].user_id \in Range(ListNow("__usage"))
    /\ StoredNow(proc[p].user_id).usage_text_since_last_record[proc[p].model] = 5

\* getRemainingModelUsageByData answered for a record of an active user
\* with a customer id and a limit object for the model
Measured(p) ==
  /\ IsSome(proc[p].remainingUsage) /\ IsSome(proc[p].measured)
  /\ ~Forbidden(The(proc[p].measured))
  /\ proc[p].model \in DOMAIN The(proc[p].measured).limits

\* max(0, limit - used) of the windows of the model that have a limit
Capacities(r, model) ==
  { IF r.limits[model][w] - r.used[model][w] > 0
    THEN r.limits[model][w] - r.used[model][w] ELSE 0 :
      w \in {w \in {"minute", "day"} : r.limits[model][w] /= NullLimit} }

\* C15: the remaining capacity of an active user with a customer id and a
\* limit object is the least max(0, limit - used) over the windows with a
\* non-null limit, null when both limits are null, and never negative
C15_RemainingIsMinimum ==
  \A p \in Procs : Measured(p) =>
    LET caps == Capacities(The(proc[p].measured), proc[p].model)
        remaining == The(proc[p].remainingUsage)
    IN  /\ caps = {} => remaining = NullLimit
        /\ caps /= {} => remaining \in caps /\ \A c \in caps : remaining <= c
        /\ remaining = NullLimit \/ remaining >= 0

C15_Witness ==
  \E p \in Procs :
    /\ Measured(p)
    /\ The(proc[p].measured).limits[proc[p].model] = Window(10, 20)
    /\ The(proc[p].measured).used[proc[p].model] = Window(8, 19)
    /\ proc[p].remainingUsage = Some(1)
    /\ proc[p].kind = "getRemainingModelUsage"

\* C16: when the minute or the day limit of the model is 0, the remaining
\* capacity is 0, whatever the other limit (null included) and the counters
C16_ZeroLimitBlocks ==
  \A p \in Procs : Measured(p) =>
    ((\E w \in {"minute", "day"} : The(proc[p].measured).limits[proc[p].model][w] = 0)
       => proc[p].remainingUsage = Some(0))

C16_Witness ==
  \E p \in Procs :
    /\ Measured(p)
    /\ The(proc[p].measured).limits[proc[p].model] = Window(NullLimit, 0)
    /\ proc[p].remainingUsage = Some(0)

(***************************************************************************)
(* What the calls of incrementUsage did, read off the handler's calls.     *)
(***************************************************************************)
\* the caller's record when the n-th call of incrementUsage had run its
\* synchronous part
AfterCall(p, n) ==
  IF n < Len(proc[p].calls) THEN proc[p].calls[n + 1].before ELSE The(proc[p].userData)

\* the calls of p with a non-zero amount
Charging(p) == {n \in 1..Len(proc[p].calls) : proc[p].calls[n].count /= 0}

\* incrementUsage is not awaiting its write or its two addString
Returned(p) == proc[p].pc \notin {"inc_put", "add"}

\* C17: a call of incrementUsage with a non-zero amount leaves the caller's
\* record with used[model].minute, used[model].day and
\* usage_text_since_last_record[model] raised by exactly the amount and
\* every other counter, every limit and every other field as it was, and
\* that record is the one stored when the call returns
C17_IncrementAddsAmount ==
  \A p \in Procs : \A n \in Charging(p) :
    LET before == proc[p].calls[n].before
        after == AfterCall(p, n)
        model == proc[p].calls[n].model
        count == proc[p].calls[n].count
    IN  /\ after.used[model].minute = before.used[model].minute + count
        /\ after.used[model].day = before.used[model].day + count
        /\ after.usage_text_since_last_record[model]
             = before.usage_text_since_last_record[model] + count
        /\ \A k \in DOMAIN before.used \ {model} :
             /\ after.used[k] = before.used[k]
             /\ after.usage_text_since_last_record[k] = before.usage_text_since_last_record[k]
        /\ DOMAIN after = DOMAIN before
        /\ \A f \in DOMAIN before \ {"used", "usage_text_since_last_record"} :
             after[f] = before[f]
        /\ (n = Len(proc[p].calls) /\ Returned(p)) =>
             KV_USERS[proc[p].user_id] = Some(stringify(after))

C17_Witness ==
  \E p \in Procs :
    /\ proc[p].kind = "generate" /\ proc[p].pc = "done"
    /\ Cardinality(Charging(p)) = 2
    /\ StoredNow(proc[p].user_id).used["gpt-4"].day > StoredNow(proc[p].user_id).used["gpt-4"].minute
    /\ StoredNow(proc[p].user_id).limits["gpt-4"] = Window(10, 20)

\* C18: a call of incrementUsage with amount 0 returns at once: the
\* caller's record is the one it passed, no write of the record and no
\* addString is started, and the store is as it was
C18_ZeroIsNoOp ==
  [][\A p \in Procs :
       (/\ Len(proc'[p].calls) = Len(proc[p].calls) + 1
        /\ proc'[p].calls[Len(proc'[p].calls)].count = 0)
       => /\ proc'[p].userData = Some(proc'[p].calls[Len(proc'[p].calls)].before)
          /\ proc'[p].userData = proc[p].userData
          /\ proc'[p].pc \notin {"inc_put", "add"}
          /\ proc'[p].inc = None
          /\ KV_USERS' = KV_USERS]_vars

C18_Witness ==
  \E p \in Procs :
    /\ proc[p].kind = "generate" /\ proc[p].pc = "done"
    /\ Len(proc[p].calls) = 2
    /\ proc[p].calls[2].count = 0
    /\ KV_USERS[proc[p].user_id] = Some(stringify(proc[p].calls[2].before))

\* C19: when a call of incrementUsage with a non-zero amount has returned,
\* the user is in '__usage' and in '__usage_daily', and no user is twice in
\* either list, also when the user was in the list before the call
C19_DirtyAfterIncrement ==
  \A p \in Procs :
    /\ (Charging(p) /= {} /\ Returned(p)) =>
         /\ proc[p].user_id \in Range(ListNow("__usage"))
         /\ proc[p].user_id \in Range(ListNow("__usage_daily"))
    /\ \A k \in {"__usage", "__usage_daily"} : \A u \in Users :
         Occurrences(ListNow(k), u) <= 1

C19_Witness ==
  \E p \in Procs :
    /\ Charging(p) /= {} /\ Returned(p)
    /\ IsSome(The(proc[p].old).KV_USERS["__usage"])
    /\ proc[p].user_id \in Range(The(The(proc[p].old).KV_USERS["__usage"]))
    /\ Occurrences(ListNow("__usage"), proc[p].user_id) = 1
    /\ Occurrences(ListNow("__usage_daily"), proc[p].user_id) = 1

\* the amounts of the calls of p, added up
RECURSIVE CallsTotal(_)
CallsTotal(calls) == IF calls = <<>> THEN 0 ELSE Head(calls).count + CallsTotal(Tail(calls))

\* C20: when a handler has made its calls of incrementUsage one after the
\* other on the same user and model, the stored counters are the ones
\* before plus the sum of the amounts: a then b, b then a and a single
\* a + b end in the same record
C20_IncrementsAddUp ==
  \A p \in Procs :
    (proc[p].kind = "generate" /\ proc[p].pc = "done" /\ proc[p].calls /= <<>>) =>
      LET u == proc[p].user_id
          m == proc[p].model
          total == CallsTotal(proc[p].calls)
      IN  /\ StoredNow(u).used[m].minute = StoredBefore(p).used[m].minute + total
          /\ StoredNow(u).used[m].day = StoredBefore(p).used[m].day + total
          /\ StoredNow(u).usage_text_since_last_record[m]
               = StoredBefore(p).usage_text_since_last_record[m] + total

C20_Witness ==
  \E p \in Procs :
    /\ proc[p].kind = "generate" /\ proc[p].pc = "done"
    /\ Len(proc[p].calls) = 2
    /\ proc[p].calls[1].count = 5 /\ proc[p].calls[2].count = 2
    /\ StoredNow(proc[p].user_id).used[proc[p].model].minute
         = StoredBefore(p).used[proc[p].model].minute + 7

(***************************************************************************)
(* The minute reset and the day reset.                                     *)
(***************************************************************************)
\* getUnsafeObjectKeys(table).forEach(k => table[k][type] = 0)
ZeroWindow(table, type) == [k \in DOMAIN table |-> [table[k] EXCEPT ![type] = 0]]

WindowOf_AlwaysMinute(cron) == "minute"
WindowOf(cron) == IF cron = CronMinute THEN "minute" ELSE "day"

ResetCounters_TextOnly(userData, type) == [userData EXCEPT !.used = ZeroWindow(@, type)]
ResetCounters(userData, type) ==
  [userData EXCEPT !.used = ZeroWindow(@, type), !.image_used = ZeroWindow(@, type)]

\* const userData = await getUserDataById(env, userId), then the two forEach
ResetLoad(p) ==
  /\ proc[p].pc = "reset_load"
  /\ LET user_id == proc[p].items[proc[p].i]
         userData == UserDataOf(KV_USERS[user_id], defaultModelLimits)
     IN  /\ proc' = Put(p, [proc[p] EXCEPT
               !.user_id = user_id,
               !.userData = Some(ResetCounters(userData, WindowOf(proc[p].kind))),
               !.pc = "reset_put"])
         /\ defaultModelLimits' = userData.limits
  /\ UNCHANGED <<KV_USERS, bq, usageRecords, added, subscriptions, started>>

\* await env.KV_USERS.put(userId, JSON.stringify(userData))
ResetPut(p) ==
  /\ proc[p].pc = "reset_put"
  /\ KV_USERS' = [KV_USERS EXCEPT ![proc[p].user_id] = Some(stringify(The(proc[p].userData)))]
  /\ proc' = Put(p, NextResetUser(proc[p]))
  /\ UNCHANGED <<defaultModelLimits, bq, usageRecords, added, subscriptions, started>>

\* const dailyList = await env.KV_USERS.get('__usage_daily'); if (dailyList)
DailyGet(p) ==
  /\ proc[p].pc = "daily_get"
  /\ LET dailyList == KV_USERS["__usage_daily"]
         rec == [proc[p] EXCEPT !.dailyList = dailyList]
     IN  proc' = Put(p, IF IsSome(dailyList)
                        THEN NextResetUser([rec EXCEPT !.items = The(dailyList), !.i = 0])
                        ELSE [rec EXCEPT !.pc = "done"])
  /\ UNCHANGED <<KV_USERS, defaultModelLimits, bq, usageRecords, added, subscriptions, started>>

\* await env.KV_USERS.delete('__usage_daily')
DailyDelete(p) ==
  /\ proc[p].pc = "daily_delete"
  /\ KV_USERS' = [KV_USERS EXCEPT !["__usage_daily"] = None]
  /\ proc' = Put(p, [proc[p] EXCEPT !.pc = "done"])
  /\ UNCHANGED <<defaultModelLimits, bq, usageRecords, added, subscriptions, started>>

ResetStep(p) ==
  \/ GetUsage(p)
  \/ ResetLoad(p)
  \/ ResetPut(p)
  \/ DailyGet(p)
  \/ DailyDelete(p)
  \/ Return(p)

(***************************************************************************)
(* The enqueue of a run, one handler at a time.                            *)
(***************************************************************************)
\* addTrackedRuns has returned
Enqueued(p) == proc[p].kind = "addTrackedRuns" /\ proc[p].pc = "done"
EnqueuedKey(p) == proc[p].items[1]
TrackedBefore(p) ==
  IF IsSome(The(proc[p].old).KV_USERS["__tracked_runs"])
  THEN The(The(proc[p].old).KV_USERS["__tracked_runs"]) ELSE <<>>

\* C21: when addTrackedRuns has returned, its run is exactly once in
\* '__tracked_runs', whether or not an earlier call had put it there, and
\* every other entry is as often in the list as before
C21_EnqueueIdempotent ==
  \A p \in Procs : Enqueued(p) =>
    /\ Occurrences(Tracked, EnqueuedKey(p)) = 1
    /\ \A n \in 1..Len(TrackedBefore(p)) :
         TrackedBefore(p)[n] /= EnqueuedKey(p) =>
           Occurrences(Tracked, TrackedBefore(p)[n]) = Occurrences(TrackedBefore(p), TrackedBefore(p)[n])
    /\ Len(Tracked) = Len(TrackedBefore(p))
                        + (IF EnqueuedKey(p) \in Range(TrackedBefore(p)) THEN 0 ELSE 1)

C21_Witness ==
  \E p \in Procs :
    /\ Enqueued(p)
    /\ EnqueuedKey(p) \in Range(TrackedBefore(p))
    /\ Tracked = <<EnqueuedKey(p)>>

(***************************************************************************)
(* The requests that insert into the lists, interleaved at their awaits    *)
(* with each other and with one scheduled job at a time.                   *)
(***************************************************************************)
\* u1 has submitted tool outputs of 700 characters for a gpt-4 run and has
\* started run r1; u2 has done nothing yet
MeteredUser(u) ==
  IF u = "u1" THEN Incremented(ActiveUser(u), "gpt-4", 700) ELSE ActiveUser(u)

InitLists ==
  /\ KV_USERS = [Store([u \in Users |-> Some(MeteredUser(u))]) EXCEPT
                   !["__usage"] = Some(<<"u1">>),
                   !["__usage_daily"] = Some(<<"u1">>),
                   !["__tracked_runs"] = Some(<<TrackedRunKey("u1", "t1", "r1", 0)>>)]
  /\ defaultModelLimits = InitialModelLimits
  /\ bq = <<>>
  /\ usageRecords = <<>>
  /\ added = [u \in Users |-> [m \in TextKeySet |-> IF u = "u1" /\ m = "gpt-4" THEN 700 ELSE 0]]
  /\ subscriptions = [c \in {Customer(u) : u \in Users} |-> <<BothModels>>]
  /\ proc = [p \in Procs |-> Idle]
  /\ started = [jobs |-> 0, requests |-> 0]

\* the handlers started so far
Handlers == started.jobs + started.requests

NextLists ==
  \E p \in Procs :
    \/ Handlers < MaxHandlers /\ addTrackedRuns(p, FALSE)
    \/ Handlers < MaxHandlers /\ submitToolOutputs(p, FALSE)
    \/ /\ Handlers < MaxHandlers
       /\ NoJobRuns
       /\ \E cron \in {CronMinute, CronDaily, CronRuns, CronBilling} : scheduled(p, cron, FALSE)
    \/ RequestStep(p)
    \/ RunsStep(p)
    \/ BillStep(p)
    \/ ResetStep(p)

SpecLists == InitLists /\ [][NextLists]_vars

\* C22: none of '__usage', '__usage_daily' and '__tracked_runs' ever holds
\* an entry twice, however the inserts of the requests and the scheduled
\* jobs interleave
C22_NoDuplicates ==
  \A k \in ListKeys : \A n, j \in 1..Len(ListNow(k)) :
    ListNow(k)[n] = ListNow(k)[j] => n = j

C22_Witness ==
  \E p, q \in Procs : \E k \in {"__usage", "__usage_daily"} :
    /\ p /= q
    /\ proc[p].pc = "add" /\ proc[q].pc = "add"
    /\ proc[p].add[k].pc = "done" /\ proc[q].add[k].pc = "put"
    /\ proc[p].add[k].value = proc[q].add[k].value
    /\ proc[q].add[k].value \in Range(ListNow(k))

(***************************************************************************)
(* The two resets and the metered requests, one handler at a time.         *)
(***************************************************************************)
\* u1 has used gpt-4 and has image counters that are not 0, u2 has used
\* gpt-4-1106-preview; both are in the two lists
CountedUser(u) ==
  IF u = "u1"
  THEN [Incremented(ActiveUser(u), "gpt-4", 700) EXCEPT
          !.image_used["dall-e-3"] = Window(1, 1),
          !.usage_image_since_last_record["dall-e-3"] = 1]
  ELSE Incremented(ActiveUser(u), "gpt-4-1106-preview", 1800)

InitReset ==
  /\ \/ KV_USERS = [Store([u \in Users |-> Some(CountedUser(u))]) EXCEPT
                      !["__usage"] = Some(<<"u1", "u2">>),
                      !["__usage_daily"] = Some(<<"u1", "u2">>)]
     \/ KV_USERS = Store([u \in Users |-> Some(ActiveUser(u))])
  /\ defaultModelLimits = InitialModelLimits
  /\ bq = <<>>
  /\ usageRecords = <<>>
  /\ added = [u \in Users |-> [m \in TextKeySet |-> 0]]
  /\ subscriptions = [c \in {Customer(u) : u \in Users} |-> <<BothModels>>]
  /\ proc = [p \in Procs |-> Idle]
  /\ started = [jobs |-> 0, requests |-> 0]

NextReset ==
  \E p \in Procs :
    \/ submitToolOutputs(p, TRUE)
    \/ \E cron \in {CronMinute, CronDaily} : scheduled(p, cron, TRUE)
    \/ RequestStep(p)
    \/ ResetStep(p)
    \/ IncrementPut(p)
    \/ \E k \in ListKeys : AddStringGet(p, k) \/ AddStringPut(p, k)

SpecReset == InitReset /\ [][NextReset]_vars

\* a reset job has finished without an exception
ResetDone(p, cron) == proc[p].kind = cron /\ proc[p].pc = "done" /\ ~proc[p].aborted
ListBefore(p, k) ==
  IF IsSome(The(proc[p].old).KV_USERS[k]) THEN The(The(proc[p].old).KV_USERS[k]) ELSE <<>>

\* the stored record of u has every counter of the window at 0 and the
\* counters of the other window as they were when p started
WindowZeroed(p, u, type, other) ==
  LET before == StoredRecord(The(proc[p].old).KV_USERS, u)
      after == StoredNow(u)
  IN  /\ \A k \in DOMAIN after.used :
           after.used[k][type] = 0 /\ after.used[k][other] = before.used[k][other]
      /\ \A k \in DOMAIN after.image_used :
           after.image_used[k][type] = 0 /\ after.image_used[k][other] = before.image_used[k][other]
      /\ after.limits = before.limits
      /\ after.image_limits = before.image_limits
      /\ after.usage_text_since_last_record = before.usage_text_since_last_record
      /\ after.usage_image_since_last_record = before.usage_image_since_last_record

\* C23: when a minute reset has finished, every user that was in '__usage'
\* has every minute counter (text and image) stored as 0 and the day
\* counters, the limits and the since-last-record values stored as they
\* were; the records of the other users and '__usage' itself are as they were
C23_MinuteReset ==
  \A p \in Procs : ResetDone(p, CronMinute) =>
    /\ \A u \in Users :
         IF u \in Range(ListBefore(p, "__usage"))
         THEN IsSome(KV_USERS[u]) /\ WindowZeroed(p, u, "minute", "day")
         ELSE KV_USERS[u] = The(proc[p].old).KV_USERS[u]
    /\ KV_USERS["__usage"] = The(proc[p].old).KV_USERS["__usage"]
    /\ KV_USERS["__usage_daily"] = The(proc[p].old).KV_USERS["__usage_daily"]

C23_Witness ==
  \E p \in Procs :
    /\ ResetDone(p, CronMinute)
    /\ ListBefore(p, "__usage") = <<"u1", "u2">>
    /\ StoredRecord(The(proc[p].old).KV_USERS, "u1").image_used["dall-e-3"].minute = 1
    /\ StoredNow("u1").used["gpt-4"] = Window(0, 700)
    /\ StoredNow("u2").used["gpt-4-1106-preview"] = Window(0, 1800)

\* C24: while the day reset walks '__usage_daily' the list is still there;
\* when it comes to delete it, and when it has finished, every user that
\* was in the list has every day counter stored as 0 and the minute
\* counters and the since-last-record values stored as they were; when it
\* has finished, '__usage_daily' is deleted
C24_DayReset ==
  \A p \in Procs : proc[p].kind = CronDaily /\ ~proc[p].aborted =>
    /\ proc[p].pc \in {"reset_load", "reset_put", "daily_delete"} =>
         KV_USERS["__usage_daily"] = proc[p].dailyList
    /\ (proc[p].pc \in {"daily_delete", "done"} /\ IsSome(proc[p].dailyList)) =>
         \A u \in Range(The(proc[p].dailyList)) :
           IsSome(KV_USERS[u]) /\ WindowZeroed(p, u, "day", "minute")
    /\ proc[p].pc = "done" => ~IsSome(KV_USERS["__usage_daily"])

C24_Witness ==
  \E p \in Procs :
    /\ ResetDone(p, CronDaily)
    /\ proc[p].dailyList = Some(<<"u1", "u2">>)
    /\ StoredNow("u1").used["gpt-4"] = Window(700, 0)
    /\ StoredNow("u2").used["gpt-4-1106-preview"] = Window(1800, 0)
    /\ ~IsSome(KV_USERS["__usage_daily"])

(***************************************************************************)
(* Loads that follow one another in one process.  The stored records are   *)
(* the ones the writers of KV_USERS leave: none, a default record, a       *)
(* record with limits an operator stored, a record written before          *)
(* 'gpt-4-1106-preview' was in models, and a record written while models   *)
(* had a key it has no more.                                               *)
(***************************************************************************)
FormerModel == "gpt-4-32k"

Without(table, m) == [k \in DOMAIN table \ {m} |-> table[k]]
With(table, m, v) == [k \in DOMAIN table \cup {m} |-> IF k = m THEN v ELSE table[k]]

OperatorLimitsUser(u) ==
  [ActiveUser(u) EXCEPT !.limits["gpt-4"] = Window(10, 20),
                        !.limits["gpt-4-1106-preview"] = Window(NullLimit, 0),
                        !.used["gpt-4"] = Window(0, 8)]

EarlierUser(u) ==
  [ActiveUser(u) EXCEPT
     !.limits = Without(@, "gpt-4-1106-preview"),
     !.used = Without([@ EXCEPT !["gpt-4"] = Window(3, 3)], "gpt-4-1106-preview"),
     !.usage_text_since_last_record = Without([@ EXCEPT !["gpt-4"] = 3], "gpt-4-1106-preview")]

FormerModelUser(u) ==
  [ActiveUser(u) EXCEPT
     !.limits = With(@, FormerModel, Window(100, NullLimit)),
     !.used = With(@, FormerModel, Window(0, 40)),
     !.usage_text_since_last_record = With(@, FormerModel, 40)]

StoredValues(u) ==
  { None, Some(ActiveUser(u)), Some(OperatorLimitsUser(u)), Some(EarlierUser(u)),
    Some(FormerModelUser(u)) }

InitLoad ==
  /\ \E s1 \in StoredValues("u1"), s2 \in StoredValues("u2") :
       KV_USERS = Store([u \in Users |-> IF u = "u1" THEN s1 ELSE s2])
  /\ defaultModelLimits = InitialModelLimits
  /\ bq = <<>>
  /\ usageRecords = <<>>
  /\ added = [u \in Users |-> [m \in TextKeySet |-> 0]]
  /\ subscriptions = [c \in {Customer(u) : u \in Users} |-> <<>>]
  /\ proc = [p \in Procs |-> Idle]
  /\ started = [jobs |-> 0, requests |-> 0]

\* getUserData, one request after the other
NextLoad ==
  \E p \in Procs :
    \/ getRemainingModelUsage(p, TRUE)
    \/ RemainingLoad(p)
    \/ Return(p)

SpecLoad == InitLoad /\ [][NextLoad]_vars

\* getUserData returned to p
Loaded(p) == proc[p].kind = "getRemainingModelUsage" /\ IsSome(proc[p].measured)
LoadedFrom(p) == KV_USERS[proc[p].user_id]
TableFields == ObjectFields \cup FlatFields

\* every value of the stored record is in the loaded one
KeepsStored(stored, loaded) ==
  \A f \in DOMAIN stored :
    IF f \in TableFields
    THEN \A m \in DOMAIN stored[f] : m \in DOMAIN loaded[f] /\ loaded[f][m] = stored[f][m]
    ELSE loaded[f] = stored[f]

\* every key of the default skeleton the stored record lacks has the default
FillsDefaults(stored, loaded) ==
  LET skeleton == getDefaultUserData(InitialModelLimits)
  IN  \A f \in DOMAIN skeleton :
        IF f \notin DOMAIN stored THEN loaded[f] = skeleton[f]
        ELSE f \in TableFields =>
               \A m \in DOMAIN skeleton[f] \ DOMAIN stored[f] : loaded[f][m] = skeleton[f][m]

\* C25: load of an absent user returns the default record, with the default
\* limits table; load of a present user keeps every stored value and gives
\* every key of the skeleton that the stored record lacks its default
C25_Original ==
  \A p \in Procs :
    Loaded(p) =>
      IF ~IsSome(LoadedFrom(p))
      THEN The(proc[p].measured) = getDefaultUserData(InitialModelLimits)
      ELSE /\ KeepsStored(The(LoadedFrom(p)), The(proc[p].measured))
           /\ FillsDefaults(The(LoadedFrom(p)), The(proc[p].measured))

\* C26: in every record load returns, every model with an entry in limits
\* has an entry in used and in usage_text_since_last_record
C26_Original ==
  \A p \in Procs :
    Loaded(p) =>
      \A m \in DOMAIN The(proc[p].measured).limits :
        /\ m \in DOMAIN The(proc[p].measured).used
        /\ m \in DOMAIN The(proc[p].measured).usage_text_since_last_record

(***************************************************************************)
(* The four cadences of scheduled, one event after the other, with awaits  *)
(* that may reject.  The three lists are in use when the first event fires. *)
(***************************************************************************)
Cadences == {CronMinute, CronDaily, CronRuns, CronBilling}

InitJobs ==
  /\ KV_USERS = [Store([u \in Users |-> Some(CountedUser(u))]) EXCEPT
                   !["__usage"] = Some(<<"u1", "u2">>),
                   !["__usage_daily"] = Some(<<"u1", "u2">>),
                   !["__tracked_runs"] = Some(<<TrackedRunKey("u1", "t1", "r1", 0),
                                                TrackedRunKey("u2", "t2", "r3", 0)>>)]
  /\ defaultModelLimits = InitialModelLimits
  /\ bq = <<>>
  /\ usageRecords = <<>>
  /\ added = [u \in Users |-> [m \in TextKeySet |-> 0]]
  /\ subscriptions = [c \in {Customer(u) : u \in Users} |-> <<BothModels>>]
  /\ proc = [p \in Procs |-> Idle]
  /\ started = [jobs |-> 0, requests |-> 0]

\* every handler that was started has returned
InTurn == \A q \in Procs : proc[q].pc \in {"idle", "done"}

NextJobsFault ==
  \E p \in Procs :
    \/ InTurn /\ \E cron \in Cadences : scheduled(p, cron, FALSE)
    \/ RunsStep(p)
    \/ BillStep(p)
    \/ ResetStep(p)
    \/ RunThrows(p)
    \/ ScheduledThrows(p)

SpecJobsFault == InitJobs /\ [][NextJobsFault]_vars

IsJob(p) == proc[p].kind \in Cadences
JobReturned(p) == IsJob(p) /\ proc[p].pc = "done"

\* C27: an await of a scheduled job that rejects is caught in the handler,
\* which returns normally; no job is left with an exception that escaped,
\* and the event that follows a failed one starts as after any other
C27_FailureIsCaught ==
  /\ \A p \in Procs : IsJob(p) /\ proc[p].aborted => proc[p].pc = "done"
  /\ \A p \in Procs : IsJob(p) => proc[p].pc /= "threw"
  /\ ( /\ \E p \in Procs : JobReturned(p) /\ proc[p].aborted
       /\ InTurn /\ (\E q \in Procs : ~Busy(q)) /\ started.jobs < MaxJobs )
       => \A cron \in Cadences : ENABLED (\E q \in Procs : InTurn /\ scheduled(q, cron, FALSE))

\* a job failed and returned, and the job that followed it did its work
C27_Witness ==
  /\ JobReturned(1) /\ proc[1].aborted
  /\ JobReturned(2) /\ ~proc[2].aborted
  /\ proc[2].kind = CronBilling /\ Len(usageRecords) > 0
  /\ ~IsSome(KV_USERS["__usage"])

\* the job failed in the body of its loop for the unit at proc[p].i
FailedInUnit(p) ==
  /\ JobReturned(p) /\ proc[p].aborted
  /\ proc[p].i \in 1..Len(proc[p].items)
\* the loop of the job came to the n-th unit of its list
Reached(p, n) == n <= proc[p].i

\* C28: when the processing of one user (one run in the sweep) fails, every
\* other user (run) of the same list is still processed in that job run
C28_Original ==
  \A p \in Procs :
    FailedInUnit(p) => \A n \in 1..Len(proc[p].items) : Reached(p, n)

\* a store await of the job was rejected, none of the collaborators' was
StoreFailed(p) ==
  /\ JobReturned(p) /\ proc[p].aborted
  /\ \A n \in 1..Len(proc[p].log) : proc[p].log[n].outcome /= "threw"
ObservedCompleted(p, run) ==
  \E n \in 1..Len(proc[p].log) : proc[p].log[n].run = run /\ proc[p].log[n].outcome = "completed"

\* what C29 asks of the store when the job of p has returned
ListsKept(p) ==
  /\ proc[p].kind = CronRuns =>
       \A run \in Range(ListBefore(p, "__tracked_runs")) :
         ~ObservedCompleted(p, run) => run \in Range(Tracked)
  /\ proc[p].kind = CronDaily =>
       ListNow("__usage_daily") = ListBefore(p, "__usage_daily")
  /\ proc[p].kind = CronBilling =>
       ListNow("__usage") = ListBefore(p, "__usage")

\* C29: when a job in which a store await failed returns, every run that
\* was in '__tracked_runs' before the sweep and was not observed completed
\* is still there, and a failed day reset or billing flush leaves its list
\* as it was
C29_Original ==
  [][\A p \in Procs :
       (proc[p].pc /= "done" /\ StoreFailed(p)') => ListsKept(p)']_vars

(***************************************************************************)
(* A handler that waits for the sink, the model stream or the run-status   *)
(* collaborator while a metered request of the same process runs from its  *)
(* first await to its last.                                                *)
(***************************************************************************)
\* the awaits of /api/generate and of the run sweep that are not the store's
Suspended(q) ==
  proc[q].pc \in {"gen_sink_user", "gen_stream", "gen_sink_assistant",
                  "runs_retrieve", "runs_steps", "runs_sink"}

\* the first handler goes on when the request that ran meanwhile has returned
NextSuspend ==
  \/ generate(1, TRUE)
  \/ scheduled(1, CronRuns, TRUE)
  \/ Suspended(1) /\ submitToolOutputs(2, FALSE)
  \/ ~Busy(2) /\ GenerateLoad(1)
  \/ ~Busy(2) /\ GenerateRemaining(1)
  \/ ~Busy(2) /\ GenerateCreate(1)
  \/ ~Busy(2) /\ GenerateSinkUser(1)
  \/ ~Busy(2) /\ GenerateStream(1)
  \/ ~Busy(2) /\ GenerateSinkAssistant(1)
  \/ ~Busy(2) /\ GetUsage(1)
  \/ ~Busy(2) /\ RunsGet(1)
  \/ ~Busy(2) /\ RunsDelete(1)
  \/ ~Busy(2) /\ RunsLoad(1)
  \/ ~Busy(2) /\ RunsRetrieve(1)
  \/ ~Busy(2) /\ RunsSteps(1)
  \/ ~Busy(2) /\ RunsSink(1)
  \/ ~Busy(2) /\ RunsNext(1)
  \/ ~Busy(2) /\ RunsPut(1)
  \/ RequestStep(2)
  \/ \E p \in Procs :
       /\ p = 1 => ~Busy(2)
       /\ \/ IncrementPut(p)
          \/ \E k \in ListKeys : AddStringGet(p, k) \/ AddStringPut(p, k)
          \/ Return(p)

SpecSuspend == InitLists /\ [][NextSuspend]_vars

\* the step is the write of the record of its user by the handler p
WritesRecord(p) == proc[p].pc = "inc_put" /\ proc'[p].pc /= "inc_put"

\* the counters the step writes are the ones in the store with the amount
\* of the handler added
FromStored(p) ==
  LET u == proc[p].user_id
      inc == The(proc[p].inc)
      fresh == Incremented(StoredRecord(KV_USERS, u), inc.model, inc.count)
      written == StoredRecord(KV_USERS', u)
  IN  /\ written.used = fresh.used
      /\ written.usage_text_since_last_record = fresh.usage_text_since_last_record

\* C30: every record written to the store is computed from the record as
\* the store holds it when the handler comes back from its wait for the
\* sink, the stream or the run-status collaborator: the increments of
\* /api/generate and of the run sweep add to a record read again
C30_Original == [][\A p \in Procs : WritesRecord(p) => FromStored(p)]_vars

(***************************************************************************)
(* The metered requests, the run sweep and the billing flush of one user,  *)
(* interleaved at their awaits; no reset fires.                            *)
(***************************************************************************)
NextUsage ==
  \E p \in Procs :
    \/ Handlers < MaxHandlers /\ submitToolOutputs(p, FALSE)
    \/ /\ Handlers < MaxHandlers
       /\ NoJobRuns
       /\ \E cron \in {CronRuns, CronBilling} : scheduled(p, cron, FALSE)
    \/ RequestStep(p)
    \/ RunsStep(p)
    \/ BillStep(p)

SpecUsage == InitLists /\ [][NextUsage]_vars

UsedOf(kv, u, m, w) == StoredRecord(kv, u).used[m][w]

\* C31: while no reset of the window runs, no step of a request, a run
\* sweep or a billing flush lowers a stored used[model][window]
C31_Original ==
  [][\A u \in Users, m \in TextKeySet, w \in {"minute", "day"} :
       UsedOf(KV_USERS', u, m, w) >= UsedOf(KV_USERS, u, m, w)]_vars

(***************************************************************************)
(* One minute reset and one billing flush of the same users, interleaved   *)
(* at their awaits.                                                        *)
(***************************************************************************)
NextResetFlush ==
  \E p \in Procs :
    \/ \E cron \in {CronMinute, CronBilling} :
         /\ \A q \in Procs : proc[q].kind /= cron
         /\ scheduled(p, cron, FALSE)
    \/ GetUsage(p)
    \/ ResetLoad(p)
    \/ ResetPut(p)
    \/ BillLoad(p)
    \/ BillList(p)
    \/ BillReport(p)
    \/ BillPut(p)
    \/ BillDelete(p)

SpecResetFlush == InitJobs /\ [][NextResetFlush]_vars

\* the minute reset p and the billing flush q have both returned, and both
\* had u in the list they read
ResetAndFlushDone(p, q, u) ==
  /\ proc[p].kind = CronMinute /\ proc[p].pc = "done"
  /\ proc[q].kind = CronBilling /\ proc[q].pc = "done"
  /\ u \in Range(proc[p].items) /\ u \in Range(proc[q].items)

\* C32: when a minute reset and a billing flush of the same user have both
\* returned, however their reads and writes interleaved, the stored minute
\* counters of the user are 0 and every usage_text_since_last_record is
\* what it was less the quantity reported times 1000
C32_Original ==
  \A p, q \in Procs, u \in Users :
    ResetAndFlushDone(p, q, u) =>
      \A m \in TextKeySet :
        /\ UsedOf(KV_USERS, u, m, "minute") = 0
        /\ SinceOf(KV_USERS, u, m)
             = SinceOf(The(proc[1].old).KV_USERS, u, m) - BillingUnit * ReportedOf(u, m)

(***************************************************************************)
(* The day reset interleaved with the metered requests.                    *)
(***************************************************************************)
NextDaily ==
  \E p \in Procs :
    \/ Handlers < MaxHandlers /\ submitToolOutputs(p, FALSE)
    \/ Handlers < MaxHandlers /\ NoJobRuns /\ scheduled(p, CronDaily, FALSE)
    \/ RequestStep(p)
    \/ ResetStep(p)
    \/ IncrementPut(p)
    \/ \E k \in ListKeys : AddStringGet(p, k) \/ AddStringPut(p, k)

SpecDaily == InitLists /\ [][NextDaily]_vars

\* the step is the delete of '__usage_daily' by the day reset p
DeletesDaily(p) == proc[p].pc = "daily_delete" /\ proc'[p].pc = "done"

\* C33: every user the day reset removes from '__usage_daily' is one whose
\* record that reset has written with its day counters at 0
C33_Original ==
  [][\A p \in Procs :
       DeletesDaily(p) => Range(ListNow("__usage_daily")) \subseteq Range(proc[p].items)]_vars

(***************************************************************************)
(* calculateLength applied to the content arrays a request body or a       *)
(* message can carry.                                                      *)
(***************************************************************************)
MaxParts == 3

Parts == {TextPart(<<>>), TextPart(<<"a">>), TextPart(<<"o", "k">>), ImagePart}
Contents == UNION {[1..n -> Parts] : n \in 0..MaxParts}

\* const length = calculateLength(body.content)
measureContent(p, alone) ==
  /\ CanStart(p, alone)
  /\ started.requests < MaxRequests
  /\ \E content \in Contents :
       proc' = Put(p, [Idle EXCEPT !.kind = "calculateLength", !.pc = "done",
                                   !.items = content, !.count = calculateLength(content)])
  /\ started' = [started EXCEPT !.requests = @ + 1]
  /\ UNCHANGED <<KV_USERS, defaultModelLimits, bq, usageRecords, added, subscriptions>>

NextLength ==
  \E p \in Procs :
    \/ measureContent(p, TRUE)
    \/ Return(p)

SpecLength == InitRuns /\ [][NextLength]_vars

\* the cost of a content: the characters of its text parts and 1000 for
\* each part that carries an image
CostOf(content) ==
  SumSeq([n \in 1..Len(content) |->
            IF "image_file" \in DOMAIN content[n] THEN 1000
            ELSE Len(content[n].text.value)])

\* C34: for every list of content parts, the empty list included,
\* calculateLength returns the sum of the costs of its parts and does not
\* raise
C34_Original ==
  \A p \in Procs :
    proc[p].kind = "calculateLength" =>
      /\ proc[p].count /= TypeError
      /\ proc[p].count = CostOf(proc[p].items)

(***************************************************************************)
(* Every operation, one after the other: the metered requests and the      *)
(* four cadences of scheduled, in any order.                               *)
(***************************************************************************)
NextInOrder ==
  \E p \in Procs :
    \/ submitToolOutputs(p, TRUE)
    \/ \E cron \in Cadences : scheduled(p, cron, TRUE)
    \/ RequestStep(p)
    \/ RunsStep(p)
    \/ BillStep(p)
    \/ ResetStep(p)

SpecInOrder == InitLists /\ [][NextInOrder]_vars

\* no operation is under way
Quiet == \A p \in Procs : proc[p].pc \in {"idle", "done"}

\* C35: between operations, every user with a stored minute counter that
\* is not 0 is in '__usage'
C35_Original ==
  Quiet =>
    \A u \in Users, m \in TextKeySet :
      UsedOf(KV_USERS, u, m, "minute") /= 0 => u \in Range(ListNow("__usage"))

(***************************************************************************)
(* The periodic jobs for ever, one at a time, with no request: the events  *)
(* of every cadence keep firing, in any order.                             *)
(***************************************************************************)
\* u1 is at its minute limit of 'gpt-4' and under its day limit
DeniedUser(u) ==
  [QuotaUser(u, <<Window(10, 20), Window(12, 12)>>) EXCEPT
     !.usage_text_since_last_record["gpt-4"] = 12]

InitRecover ==
  /\ KV_USERS = [Store([u \in Users |-> Some(IF u = "u1" THEN DeniedUser(u) ELSE CountedUser(u))])
                   EXCEPT !["__usage"] = Some(<<"u1", "u2">>),
                          !["__usage_daily"] = Some(<<"u1", "u2">>)]
  /\ defaultModelLimits = InitialModelLimits
  /\ bq = <<>>
  /\ usageRecords = <<>>
  /\ added = [u \in Users |-> [m \in TextKeySet |-> 0]]
  /\ subscriptions = [c \in {Customer(u) : u \in Users} |-> <<BothModels>>]
  /\ proc = [p \in Procs |-> Idle]
  /\ started = [jobs |-> 0, requests |-> 0]

\* the schedule goes on: the events counted so far are behind
NextPeriod ==
  /\ \A p \in Procs : ~Busy(p)
  /\ started.jobs = MaxJobs
  /\ started' = [started EXCEPT !.jobs = 0]
  /\ UNCHANGED <<KV_USERS, defaultModelLimits, bq, usageRecords, added, subscriptions, proc>>

Fires(cron) == \E p \in Procs : scheduled(p, cron, TRUE)

JobStep ==
  \E p \in Procs :
    \/ GetUsage(p)
    \/ RunsGet(p)
    \/ RunsDelete(p)
    \/ ResetStep(p)
    \/ BillLoad(p)
    \/ BillList(p)
    \/ BillReport(p)
    \/ BillPut(p)
    \/ BillDelete(p)

NextRecover ==
  \/ \E cron \in Cadences : Fires(cron)
  \/ JobStep
  \/ NextPeriod

\* every cadence fires again and again, and a job that can go on does
SpecRecover ==
  /\ InitRecover
  /\ [][NextRecover]_vars
  /\ WF_vars(JobStep)
  /\ WF_vars(NextPeriod)
  /\ \A cron \in Cadences : SF_vars(Fires(cron))

\* checkModelUsage would answer false for u and 'gpt-4' at the minute window
DeniedAtMinute(u) ==
  /\ ~WithinLimits(StoredNow(u), "gpt-4")
  /\ StoredNow(u).used["gpt-4"].minute >= StoredNow(u).limits["gpt-4"].minute
  /\ StoredNow(u).used["gpt-4"].day < StoredNow(u).limits["gpt-4"].day
Recovered(u) ==
  /\ StoredNow(u).used["gpt-4"].minute = 0
  /\ WithinLimits(StoredNow(u), "gpt-4")

\* C36: a user at the minute limit and under the day limit, who does
\* nothing more, has the minute counter at 0 and is admitted again at some
\* later time, when every periodic job keeps being run
C36_Original == DeniedAtMinute("u1") ~> Recovered("u1")

(***************************************************************************)
(* Run sweeps that may overlap: the */5 event fires again while the sweep  *)
(* of the event before is at one of its awaits.                            *)
(***************************************************************************)
\* a run of u1 was enqueued; nothing was charged yet
InitSweeps ==
  /\ KV_USERS = [Store([u \in Users |-> Some(ActiveUser(u))]) EXCEPT
                   !["__tracked_runs"] = Some(<<TrackedRunKey("u1", "t1", "r1", 0)>>)]
  /\ defaultModelLimits = InitialModelLimits
  /\ bq = <<>>
  /\ usageRecords = <<>>
  /\ added = [u \in Users |-> [m \in TextKeySet |-> 0]]
  /\ subscriptions = [c \in {Customer(u) : u \in Users} |-> <<>>]
  /\ proc = [p \in Procs |-> Idle]
  /\ started = [jobs |-> 0, requests |-> 0]

NextSweeps ==
  \E p \in Procs :
    \/ scheduled(p, CronRuns, FALSE)
    \/ RunsStep(p)

SpecSweeps == InitSweeps /\ [][NextSweeps]_vars

\* the rows of the usage sink the sweeps appended for a run
SweepRowsOf(thread_id, run_id) ==
  {n \in 1..Len(bq) : /\ bq[n].action = "assistant_message_creation_by_assistant"
                      /\ bq[n].extra = <<thread_id, run_id>>}

\* C37: whatever sweeps ran, overlapping or not, the usage sink holds at
\* most one row for a tracked run, each row being followed by the one call
\* of incrementUsage for that run
C37_Original ==
  \A in \in TrackedInputs : Cardinality(SweepRowsOf(in[2], in[3])) <= 1

(***************************************************************************)
(* The two admission predicates on one record.                             *)
(***************************************************************************)
\* the record is of an active user with a customer id, and the model has a
\* limit object and used entries in it
Comparable(r, model) ==
  /\ ~Forbidden(r)
  /\ model \in DOMAIN r.limits
  /\ model \in DOMAIN r.used

\* C38: on the record of an active user with a customer id, a limit object
\* and used entries for the model, checkModelUsage answers false exactly
\* when getRemainingModelUsageByData answers 0, and true exactly when it
\* answers null or a positive number: both for the answer a handler got
\* from checkModelUsage and for the answer it got from
\* getRemainingModelUsageByData
C38_PredicatesAgree ==
  \A p \in Procs :
    /\ (Decided(p) /\ proc[p].kind = "checkModelUsage" /\ Comparable(LoadedBy(p), proc[p].model)) =>
         LET remaining == getRemainingModelUsageByData(LoadedBy(p), proc[p].model)
         IN  /\ proc[p].allowed = Some(FALSE) <=> remaining = 0
             /\ proc[p].allowed = Some(TRUE) <=> (remaining = NullLimit \/ remaining > 0)
    /\ (Measured(p) /\ Comparable(The(proc[p].measured), proc[p].model)) =>
         LET remaining == The(proc[p].remainingUsage)
             check == WithinLimits(The(proc[p].measured), proc[p].model)
         IN  /\ ~check <=> remaining = 0
             /\ check <=> (remaining = NullLimit \/ remaining > 0)

\* checkModelUsage denied on a counter above a non-zero limit, and the
\* remaining capacity of the same record is 0
C38_Witness ==
  \E p \in Procs :
    /\ Decided(p) /\ proc[p].kind = "checkModelUsage"
    /\ Comparable(LoadedBy(p), proc[p].model)
    /\ LoadedBy(p).limits[proc[p].model] = Window(10, 20)
    /\ LoadedBy(p).used[proc[p].model] = Window(12, 12)
    /\ proc[p].allowed = Some(FALSE)
    /\ getRemainingModelUsageByData(LoadedBy(p), proc[p].model) = 0

\* the stored value has no limits of its own: no record, or a record
\* without the limits field
NoStoredLimits(stored) == ~IsSome(stored) \/ "limits" \notin DOMAIN The(stored)

\* C39: whatever was loaded before in the same process, the load of a user
\* who has no record, or no stored limits, returns the original default
\* limits table
C39_Original ==
  \A p \in Procs :
    (Loaded(p) /\ NoStoredLimits(LoadedFrom(p)))
      => The(proc[p].measured).limits = InitialModelLimits

(***************************************************************************)
(* The events of the four cadences, one after the other and in any order,  *)
(* with no request in between.  What an event changed is read off the      *)
(* store when its job returns: the store at the start of the job is the    *)
(* one its own steps changed.                                              *)
(***************************************************************************)
NextEvents ==
  \E p \in Procs :
    \/ \E cron \in Cadences : scheduled(p, cron, TRUE)
    \/ RunsStep(p)
    \/ BillStep(p)
    \/ ResetStep(p)

SpecEvents == InitJobs /\ [][NextEvents]_vars

StoreBefore(p) == The(proc[p].old).KV_USERS
ListIn(kv, k) == IF IsSome(kv[k]) THEN The(kv[k]) ELSE <<>>
SweptUsers(p) == {UserOfRun(proc[p].items[n]) : n \in 1..Len(proc[p].items)}

\* the record is as before, but for counters of the window that are now 0
OnlyWindowZeroed(before, after, type) ==
  /\ [after EXCEPT !.used = before.used, !.image_used = before.image_used] = before
  /\ \A f \in {"used", "image_used"} :
       /\ DOMAIN after[f] = DOMAIN before[f]
       /\ \A m \in DOMAIN before[f], w \in {"minute", "day"} :
            \/ after[f][m][w] = before[f][m][w]
            \/ w = type /\ after[f][m][w] = 0

\* the record is as before, but for the amounts not yet reported
OnlySinceChanged(before, after) ==
  [after EXCEPT !.usage_text_since_last_record = before.usage_text_since_last_record,
                !.usage_image_since_last_record = before.usage_image_since_last_record] = before

\* the list is as before, or gone
KeptOrCleared(p, k) == KV_USERS[k] = StoreBefore(p)[k] \/ KV_USERS[k] = None

\* the list is the one before, with users of swept runs appended
OnlyMarked(p, k) ==
  LET before == ListIn(StoreBefore(p), k)
      after == ListIn(KV_USERS, k)
  IN  /\ Len(after) >= Len(before)
      /\ SubSeq(after, 1, Len(before)) = before
      /\ \A n \in Len(before) + 1..Len(after) : after[n] \in SweptUsers(p)

ResetFrame(p, type, list) ==
  /\ bq = The(proc[p].old).bq
  /\ usageRecords = The(proc[p].old).usageRecords
  /\ \A k \in ListKeys \ {list} : KV_USERS[k] = StoreBefore(p)[k]
  /\ \A u \in Users :
       OnlyWindowZeroed(StoredRecord(StoreBefore(p), u), StoredRecord(KV_USERS, u), type)

\* marks: whether the sweep may add the users it charges to the two lists
SweepFrame(p, marks) ==
  /\ usageRecords = The(proc[p].old).usageRecords
  /\ \A k \in {"__usage", "__usage_daily"} :
       IF marks THEN OnlyMarked(p, k) ELSE KV_USERS[k] = StoreBefore(p)[k]
  /\ \A u \in Users \ SweptUsers(p) : KV_USERS[u] = StoreBefore(p)[u]

BillingFrame(p) ==
  /\ bq = The(proc[p].old).bq
  /\ \A k \in {"__usage_daily", "__tracked_runs"} : KV_USERS[k] = StoreBefore(p)[k]
  /\ KeptOrCleared(p, "__usage")
  /\ \A u \in Users :
       OnlySinceChanged(StoredRecord(StoreBefore(p), u), StoredRecord(KV_USERS, u))

EventFrame(p, marks) ==
  /\ proc[p].kind = CronMinute =>
       ResetFrame(p, "minute", "") /\ KV_USERS["__usage_daily"] = StoreBefore(p)["__usage_daily"]
  /\ proc[p].kind = CronDaily =>
       ResetFrame(p, "day", "__usage_daily") /\ KeptOrCleared(p, "__usage_daily")
  /\ proc[p].kind = CronRuns => SweepFrame(p, marks)
  /\ proc[p].kind = CronBilling => BillingFrame(p)

\* C40 as stated: when the job of an event returns, the per-minute event
\* has only zeroed minute counters, the daily event has only zeroed day
\* counters and cleared '__usage_daily', the 5-minute event has only
\* changed '__tracked_runs' and the records of the users of the swept runs,
\* only the 30-minute event has reported usage and cleared '__usage', and
\* every other key of the store is as it was when the event fired
C40_Original == \A p \in Procs : JobReturned(p) => EventFrame(p, FALSE)

\* C40, amended: the same, except that the 5-minute event also appends the
\* users it charges to '__usage' and '__usage_daily'
C40_CadenceFrame == \A p \in Procs : JobReturned(p) => EventFrame(p, TRUE)

\* a sweep returned after it charged a run of u1 and put u1 in '__usage',
\* which a billing flush had cleared before
C40_Witness ==
  \E p \in Procs :
    /\ JobReturned(p) /\ proc[p].kind = CronRuns
    /\ "u1" \in SweptUsers(p)
    /\ ~IsSome(StoreBefore(p)["__usage"])
    /\ "u1" \in Range(ListNow("__usage"))
    /\ KV_USERS["u1"] /= StoreBefore(p)["u1"]

====
